---- MODULE Spec2Model ----
(***************************************************************************)
(* A model of mrbench's subprocess execution core                          *)
(* (src/mrbench/core/executor.py), of the run methods of the subprocess    *)
(* adapters (src/mrbench/adapters) and of the fallback runner              *)
(* (src/mrbench/cli/bench.py).                                             *)
(*                                                                         *)
(* Text is modelled as a sequence of pieces.  A piece of child output is   *)
(* <<stream, n, part, "">>: the n-th thing the child wrote to that stream; *)
(* part "line" is a complete non-blank line, "blank" a whitespace-only     *)
(* line, "head" text with no newline yet and "tail" the rest of that line  *)
(* with its newline.  A message the executor formats itself is             *)
(* <<"msg", 0, prefix, argument>>.                                         *)
(***************************************************************************)
EXTENDS Integers, Sequences, FiniteSets, TLC

\* ------------------------------------------------------------------ bounds
MaxOut == 2     \* writes of the child to stdout in one call
MaxErr == 1     \* writes of the child to stderr in one call
MaxCalls == 2   \* run calls made on one executor

\* --------------------------------------------------------------- variables
VARIABLES
    call,         \* the arguments of the run call in progress
    ncalls,       \* how many run calls were made on this executor
    pc,           \* where run / _stream_output stands
    stdout_data, stderr_data, chunks, ttft_ms, timed_out, exit_code,
    s_ttft, s_timed_out,   \* the locals ttft_ms, timed_out of _stream_output
    registered,   \* sel.get_map(): the streams still registered
    events,       \* what sel.select returned and the for loop has not handled
    cur,          \* the stream whose readline() is being executed
    returncode,   \* process.returncode; NoCode while the child is not reaped
    res,          \* the ExecutorResult returned
    raised,       \* which exception run caught ("none" when none)
    cbLog,        \* the arguments stream_callback was invoked with, in order
    child,        \* "none", "running", "exited" (not yet reaped), "reaped"
    childCode,    \* the child's wait status once it has exited
    pipe,         \* per output stream: written by the child, not yet read
    buf,          \* per output stream: read into the text reader, not returned
    wopen,        \* per output stream: the child still holds the write end
    mid,          \* per output stream: the child's last write had no newline
    nw,           \* per output stream: number of writes so far
    written,      \* per output stream: everything the child wrote
    cin,          \* the child's standard input
    expired,      \* start_time + timeout has passed
    \* ---- _run_prompt_with_fallback (cli/bench.py)
    candidate_models,   \* the argument: the models to try, in order
    fpc,          \* "start", "loop", "done" (returned) or "raised"
    fidx,         \* position in candidate_models of the next attempt
    failures, last_result, final_model, fallback_used,
    attempts,     \* every adapter.run call made: its model and what it did
    fret,         \* the tuple returned
    \* ---- Adapter.run of the subprocess adapters (adapters/*.py)
    adapter,      \* which adapter: its name, its binary_path override, PATH
    prompt,       \* the prompt argument, a string of characters
    options,      \* the RunOptions argument
    apc,          \* "call", "done" (returned) or "raised"
    handed,       \* the calls that reached SubprocessExecutor.run
    returned,     \* what SubprocessExecutor.run returned to those calls
    runResult,    \* the RunResult returned
    \* ---- OpenAIAdapter.run, AnthropicAdapter.run (adapters/openai.py, anthropic.py)
    apiAdapter,   \* which adapter, its _api_key, whether its SDK is installed
    apiClient,    \* self._client is not None
    apiOptions,   \* the RunOptions argument
    apiPc,        \* "call", "client", "create", "read", "done" or "raised"
    apiResponse,  \* what the client call returned
    apiEvent,     \* what happened in the call: "ok" or the failure and its text
    apiCalls,     \* run calls made on this adapter
    apiResult,    \* the RunResult returned
    \* ---- AdapterRegistry (adapters/registry.py)
    registry,     \* self._adapters: the dict, as its items in insertion order
    regLog,       \* every adapter passed to register, in call order
    gpc,          \* get_available: "ready", "scan", "returned" or "raised"
    gidx,         \* get_available: position of the adapter asked next
    available,    \* get_available: the list built so far / returned
    \* ---- Router.route (core/router.py)
    router,       \* the Router: its policy and the preference_order given
    rtAdapters,   \* the adapters argument, in order
    constraints,  \* the RoutingConstraints argument
    default_models,   \* the default_models argument
    rtpc,         \* "call", "filter", "select" or "done"
    ridx,         \* position in adapters of the filter loop
    candidates,   \* the candidates list
    routed,       \* the RoutingResult returned, or None
    \* ---- _resolve_models_for_prompt (cli/bench.py)
    prompt_data,  \* the prompt entry: its model_overrides and fallback_models
    default_model,    \* the provider's default model
    rspc,         \* "call", "fallbacks", "unique" or "done"
    primary_model,    \* the local primary_model
    fallback_models,  \* the local fallback_models
    unique_fallbacks, \* the local unique_fallbacks
    rsidx,        \* position in fallback_models of the loop
    candidate_list,   \* [primary_model, *fallback_models] of bench_command
    \* ---- BenchmarkOrchestrator.run_suite (core/benchmark.py)
    suite,        \* suite.prompts: the prompt ids, in order
    providers,    \* the providers argument, or None
    models,       \* the models argument
    benchRegistry,    \* the registry the orchestrator was built with
    bpc,          \* "call", "loop", "created", "run" or "done"
    adapters,     \* the local adapters
    pidx, aidx,   \* positions of the loops over suite.prompts and adapters
    run_status,   \* the status of the run in storage
    jobs,         \* the jobs in storage, in the order created
    metrics,      \* the metrics in storage
    results,      \* benchmark_run.results
    outcomes,     \* what adapter.run did for each job
    storageLog    \* the calls made to storage and to adapter.run, in order

execVars == <<call, ncalls, pc, stdout_data, stderr_data, chunks, ttft_ms,
              timed_out, exit_code, s_ttft, s_timed_out, registered, events,
              cur, returncode, res, raised, cbLog, child, childCode,
              pipe, buf, wopen, mid, nw, written, cin, expired>>

fbVars == <<candidate_models, fpc, fidx, failures, last_result, final_model,
            fallback_used, attempts, fret>>

adVars == <<adapter, prompt, options, apc, handed, returned, runResult>>
apiVars == <<apiAdapter, apiClient, apiOptions, apiPc, apiResponse, apiEvent,
             apiCalls, apiResult>>
regVars == <<registry, regLog, gpc, gidx, available>>
rtVars == <<router, rtAdapters, constraints, default_models, rtpc, ridx,
            candidates, routed>>

rsVars == <<prompt_data, default_model, rspc, primary_model, fallback_models,
            unique_fallbacks, rsidx, candidate_list>>

bnVars == <<suite, providers, models, benchRegistry, bpc, adapters, pidx, aidx,
            run_status, jobs, metrics, results, outcomes, storageLog>>

notExec == <<fbVars, adVars, apiVars, regVars, rtVars, rsVars, bnVars>>
notFallback == <<execVars, adVars, apiVars, regVars, rtVars, rsVars, bnVars>>
notAdapters == <<execVars, fbVars, apiVars, regVars, rtVars, rsVars, bnVars>>
notApi == <<execVars, fbVars, adVars, regVars, rtVars, rsVars, bnVars>>
notRegistry == <<execVars, fbVars, adVars, apiVars, rtVars, rsVars, bnVars>>
notRouter == <<execVars, fbVars, adVars, apiVars, regVars, rsVars, bnVars>>
notResolve == <<execVars, fbVars, adVars, apiVars, regVars, rtVars, bnVars>>
notBench == <<execVars, fbVars, adVars, apiVars, regVars, rtVars, rsVars>>

vars == <<execVars, fbVars, adVars, apiVars, regVars, rtVars, rsVars, bnVars>>

\* ------------------------------------------------------------ the platform
Streams == {"out", "err"}

\* The file system the calls run against: args[0] names a binary that
\* exists and is executable, one that does not exist, or a file without the
\* execute permission.
Resolve(args0) ==
    CASE args0 = "tool" -> "ok"
      [] args0 = "nosuch" -> "missing"
      [] args0 = "locked" -> "noexec"

SIGKILL == 9
NoCode == 99        \* process.returncode is None
NaturalCodes == {0, 2}

MaxWrites(s) == IF s = "out" THEN MaxOut ELSE MaxErr

IsNl(f) == f[3] \in {"line", "blank", "tail"}
HasNl(q) == \E i \in 1..Len(q) : IsNl(q[i])
FirstNl(q) == CHOOSE i \in 1..Len(q) : IsNl(q[i]) /\ \A j \in 1..(i - 1) : ~IsNl(q[j])
Rest(q, i) == SubSeq(q, i + 1, Len(q))

\* str.strip() of a line is non-empty
NonBlank(line) == \E i \in 1..Len(line) : line[i][3] # "blank"

RECURSIVE Flatten(_)
Flatten(ss) == IF ss = <<>> THEN <<>> ELSE Head(ss) \o Flatten(Tail(ss))

\* selectors: a registered pipe is readable when the kernel holds data for
\* it or every write end is closed (end of file).
Ready(s) == pipe[s] # <<>> \/ ~wopen[s]

\* TextIOWrapper.readline: returns a line already decoded into the reader's
\* buffer without touching the pipe; otherwise reads what the pipe holds
\* into the buffer until a newline or end of file is seen.
CanReadline(s) == HasNl(buf[s] \o pipe[s]) \/ ~wopen[s]

ReadlineResult(s) ==
    IF HasNl(buf[s])
    THEN [line |-> SubSeq(buf[s], 1, FirstNl(buf[s])),
          buf |-> Rest(buf[s], FirstNl(buf[s])), pipe |-> pipe[s]]
    ELSE LET all == buf[s] \o pipe[s] IN
         IF HasNl(all)
         THEN [line |-> SubSeq(all, 1, FirstNl(all)),
               buf |-> Rest(all, FirstNl(all)), pipe |-> <<>>]
         ELSE [line |-> all, buf |-> <<>>, pipe |-> <<>>]

\* ------------------------------------------------------------ run: inputs
Calls ==
    [args0 : {"tool", "nosuch", "locked"},
     cwd : {"ok", "missing"},
     stdin : {"none", "empty", "text"},
     stream : BOOLEAN]

\* `if stdin`: None and the empty string are both false
Truthy(stdin) == stdin = "text"

EmptyResult ==
    [stdout |-> <<>>, stderr |-> <<>>, exit_code |-> -1, timed_out |-> FALSE,
     ttft_ms |-> 0, chunks |-> <<>>]

\* The state at the start of a run call (its locals, lines 65-71) with a
\* child not yet created.
Fresh(c) ==
    /\ call = c
    /\ pc = "start"
    /\ stdout_data = <<>> /\ stderr_data = <<>> /\ chunks = <<>>
    /\ ttft_ms = 0 /\ timed_out = FALSE /\ exit_code = -1
    /\ s_ttft = 0 /\ s_timed_out = FALSE
    /\ registered = {} /\ events = {} /\ cur = "out"
    /\ returncode = NoCode
    /\ res = EmptyResult
    /\ raised = "none"
    /\ cbLog = <<>>
    /\ child = "none" /\ childCode = NoCode
    /\ pipe = [s \in Streams |-> <<>>]
    /\ buf = [s \in Streams |-> <<>>]
    /\ wopen = [s \in Streams |-> TRUE]
    /\ mid = [s \in Streams |-> FALSE]
    /\ nw = [s \in Streams |-> 0]
    /\ written = [s \in Streams |-> <<>>]
    /\ cin = [mode |-> "none", data |-> "none", eof |-> FALSE]
    /\ expired = FALSE

\* The same state, as the successor state of an action.
FreshNext(c) ==
    /\ call' = c
    /\ pc' = "start"
    /\ stdout_data' = <<>> /\ stderr_data' = <<>> /\ chunks' = <<>>
    /\ ttft_ms' = 0 /\ timed_out' = FALSE /\ exit_code' = -1
    /\ s_ttft' = 0 /\ s_timed_out' = FALSE
    /\ registered' = {} /\ events' = {} /\ cur' = "out"
    /\ returncode' = NoCode
    /\ res' = EmptyResult
    /\ raised' = "none"
    /\ cbLog' = <<>>
    /\ child' = "none" /\ childCode' = NoCode
    /\ pipe' = [s \in Streams |-> <<>>]
    /\ buf' = [s \in Streams |-> <<>>]
    /\ wopen' = [s \in Streams |-> TRUE]
    /\ mid' = [s \in Streams |-> FALSE]
    /\ nw' = [s \in Streams |-> 0]
    /\ written' = [s \in Streams |-> <<>>]
    /\ cin' = [mode |-> "none", data |-> "none", eof |-> FALSE]
    /\ expired' = FALSE

ExecInit == ncalls = 1 /\ \E c \in Calls : Fresh(c)


\* ---------------------------------------------------------------- results
callVars == <<call, ncalls>>
runLocals == <<stdout_data, stderr_data, chunks, ttft_ms, timed_out, exit_code>>
streamLocals == <<s_ttft, s_timed_out>>
selVars == <<registered, events, cur>>
procVars == <<child, childCode, returncode>>
pipeVars == <<pipe, buf, wopen, mid, nw>>

\* lines 133-143: the ExecutorResult built from run's locals
Result(out, err, code, to, ttft, ch) ==
    [stdout |-> out, stderr |-> err, exit_code |-> code, timed_out |-> to,
     ttft_ms |-> ttft, chunks |-> ch]

\* run returns: the locals of _stream_output, the selector and the Popen
\* object with its pipes are dropped.
Released ==
    /\ s_ttft' = 0 /\ s_timed_out' = FALSE
    /\ registered' = {} /\ events' = {} /\ cur' = "out"
    /\ pipe' = [s \in Streams |-> <<>>]
    /\ buf' = [s \in Streams |-> <<>>]
    /\ wopen' = [s \in Streams |-> TRUE]
    /\ mid' = [s \in Streams |-> FALSE]
    /\ nw' = [s \in Streams |-> 0]
    /\ expired' = FALSE

\* The exceptions that are a FileNotFoundError: Popen's for a missing
\* binary, Popen's for a missing cwd, and one raised by the stream callback.
IsFileNotFound(kind) == kind \in {"fnf_binary", "fnf_cwd", "cb_fnf"}

\* The FileNotFoundError clause left out: every exception gets exit code 1.
HandlerCode_Generic(kind) == 1

\* lines 126-131: the two except clauses of run.  kind names the exception
\* that reached them, text is str(e).
HandlerCode(kind) == IF IsFileNotFound(kind) THEN 127 ELSE 1

HandlerMessage(kind, text) ==
    IF IsFileNotFound(kind)
    THEN <<"msg", 0, "Command not found: ", call.args0>>
    ELSE <<"msg", 0, "Execution error: ", text>>

\* An exception leaves the try block: run's ttft_ms and timed_out keep their
\* initial values, the lists keep what was appended to them (out, ch).
Except(kind, text, out, ch) ==
    /\ raised' = kind
    /\ stdout_data' = out
    /\ chunks' = ch
    /\ stderr_data' = Append(stderr_data, HandlerMessage(kind, text))
    /\ exit_code' = HandlerCode(kind)
    /\ res' = Result(out, Append(stderr_data, HandlerMessage(kind, text)),
                     HandlerCode(kind), timed_out, ttft_ms, ch)
    /\ pc' = "done"
    /\ Released
    /\ UNCHANGED <<ttft_ms, timed_out>>

\* os.killpg(process.pid, SIGKILL), or process.kill() when killpg raises
\* ProcessLookupError or PermissionError: a running child dies of the
\* signal; a child that has already exited keeps its own status.
StateAfterKill == IF child = "running" THEN "exited" ELSE child
CodeAfterKill == IF child = "running" THEN -SIGKILL ELSE childCode

\* ---------------------------------------------------------- run: start
\* lines 73-91: subprocess.Popen
PopenNotFound ==
    /\ pc = "start"
    /\ Resolve(call.args0) = "missing"
    /\ Except("fnf_binary", "No such file or directory", stdout_data, chunks)
    /\ UNCHANGED <<callVars, procVars, cbLog, written, cin>>
    /\ UNCHANGED notExec

PopenBadCwd ==
    /\ pc = "start"
    /\ Resolve(call.args0) # "missing"
    /\ call.cwd = "missing"
    /\ Except("fnf_cwd", "No such file or directory", stdout_data, chunks)
    /\ UNCHANGED <<callVars, procVars, cbLog, written, cin>>
    /\ UNCHANGED notExec

PopenDenied ==
    /\ pc = "start"
    /\ Resolve(call.args0) = "noexec"
    /\ call.cwd = "ok"
    /\ Except("oserror", "Permission denied", stdout_data, chunks)
    /\ UNCHANGED <<callVars, procVars, cbLog, written, cin>>
    /\ UNCHANGED notExec

PopenOk ==
    /\ pc = "start"
    /\ Resolve(call.args0) = "ok"
    /\ call.cwd = "ok"
    /\ child' = "running"
    /\ cin' = [mode |-> IF Truthy(call.stdin) THEN "pipe" ELSE "inherit",
               data |-> "none", eof |-> FALSE]
    /\ pc' = IF call.stream THEN "stream" ELSE "communicate"
    /\ UNCHANGED <<callVars, runLocals, streamLocals, selVars, childCode,
                   returncode, pipeVars, res, raised, cbLog, written, expired>>
    /\ UNCHANGED notExec

\* ------------------------------------------------- _stream_output: set-up
\* lines 166-178: write and close stdin, register both pipes.  Closing the
\* pipe flushes the text; with the reading end gone that raises
\* BrokenPipeError.
StreamSetup ==
    /\ pc = "stream"
    /\ ~(Truthy(call.stdin) /\ child # "running")
    /\ cin' = IF Truthy(call.stdin)
              THEN [mode |-> "pipe", data |-> call.stdin, eof |-> TRUE]
              ELSE cin
    /\ registered' = Streams
    /\ pc' = "loop"
    /\ UNCHANGED <<callVars, runLocals, streamLocals, events, cur, procVars,
                   pipeVars, res, raised, cbLog, written, expired>>
    /\ UNCHANGED notExec

StreamSetupBrokenPipe ==
    /\ pc = "stream"
    /\ Truthy(call.stdin) /\ child # "running"
    /\ Except("brokenpipe", "Broken pipe", stdout_data, chunks)
    /\ UNCHANGED <<callVars, procVars, cbLog, written, cin>>
    /\ UNCHANGED notExec

\* --------------------------------------------------- _stream_output: loop
\* line 181: `while sel.get_map()` with nothing registered any more
LoopExit ==
    /\ pc = "loop"
    /\ registered = {}
    /\ pc' = "wait"
    /\ UNCHANGED <<callVars, runLocals, streamLocals, selVars, procVars,
                   pipeVars, res, raised, cbLog, written, cin, expired>>
    /\ UNCHANGED notExec

\* lines 182-190: the deadline has passed
LoopTimeout ==
    /\ pc = "loop"
    /\ registered # {}
    /\ expired
    /\ s_timed_out' = TRUE
    /\ child' = StateAfterKill
    /\ childCode' = CodeAfterKill
    /\ wopen' = [s \in Streams |-> FALSE]
    /\ pc' = "wait"
    /\ UNCHANGED <<callVars, runLocals, s_ttft, selVars, returncode, pipe, buf,
                   mid, nw, res, raised, cbLog, written, cin, expired>>
    /\ UNCHANGED notExec

\* line 192: sel.select(timeout=min(remaining, 0.1)) returns the registered
\* streams that are readable, none when the 100 ms pass without any.
Select ==
    /\ pc = "loop"
    /\ registered # {}
    /\ ~expired
    /\ events' = {s \in registered : Ready(s)}
    /\ pc' = IF events' = {} THEN "poll" ELSE "events"
    /\ UNCHANGED <<callVars, runLocals, streamLocals, registered, cur, procVars,
                   pipeVars, res, raised, cbLog, written, cin, expired>>
    /\ UNCHANGED notExec

\* line 194: the for loop takes the next event
PickEvent ==
    /\ pc = "events"
    /\ \E s \in events :
         /\ cur' = s
         /\ events' = events \ {s}
    /\ pc' = "readline"
    /\ UNCHANGED <<callVars, runLocals, streamLocals, registered, procVars,
                   pipeVars, res, raised, cbLog, written, cin, expired>>
    /\ UNCHANGED notExec

AfterEvent == IF events = {} THEN "poll" ELSE "events"

\* lines 196-200: readline returned '' (end of file)
ReadEof ==
    /\ pc = "readline"
    /\ CanReadline(cur)
    /\ ReadlineResult(cur).line = <<>>
    /\ registered' = registered \ {cur}
    /\ pc' = AfterEvent
    /\ UNCHANGED <<callVars, runLocals, streamLocals, events, cur, procVars,
                   pipeVars, res, raised, cbLog, written, cin, expired>>
    /\ UNCHANGED notExec

\* The stream test left out: every line read is treated as stdout.
IsStdout_Any(s) == TRUE

\* line 202: `fileobj is process.stdout`
IsStdout(s) == s = "out"

\* lines 207-209: TTFT is recorded on the first line with non-blank content
TtftAfter(line, nchunks) ==
    IF s_ttft = 0 /\ NonBlank(line) THEN nchunks ELSE s_ttft

\* lines 196-209: a line of stdout; the callback returns
ReadStdoutLine ==
    /\ pc = "readline"
    /\ IsStdout(cur)
    /\ CanReadline(cur)
    /\ LET r == ReadlineResult(cur) IN
         /\ r.line # <<>>
         /\ stdout_data' = stdout_data \o r.line
         /\ chunks' = Append(chunks, r.line)
         /\ cbLog' = Append(cbLog, r.line)
         /\ s_ttft' = TtftAfter(r.line, Len(chunks) + 1)
         /\ buf' = [buf EXCEPT ![cur] = r.buf]
         /\ pipe' = [pipe EXCEPT ![cur] = r.pipe]
    /\ pc' = AfterEvent
    /\ UNCHANGED <<callVars, stderr_data, ttft_ms, timed_out, exit_code,
                   s_timed_out, selVars, procVars, wopen, mid, nw, res, raised,
                   written, cin, expired>>
    /\ UNCHANGED notExec

\* lines 196-205, 226-227, 126-131: a line of stdout; the callback raises
\* (an ordinary exception, or a FileNotFoundError of its own)
ReadStdoutLineCallbackRaises ==
    /\ pc = "readline"
    /\ IsStdout(cur)
    /\ CanReadline(cur)
    /\ LET r == ReadlineResult(cur) IN
         /\ r.line # <<>>
         /\ cbLog' = Append(cbLog, r.line)
         /\ \E kind \in {"cb_error", "cb_fnf"} :
              Except(kind, "callback failed", stdout_data \o r.line,
                     Append(chunks, r.line))
    /\ UNCHANGED <<callVars, procVars, written, cin>>
    /\ UNCHANGED notExec

\* lines 196-200, 210-211: a line of stderr
ReadStderrLine ==
    /\ pc = "readline"
    /\ ~IsStdout(cur)
    /\ CanReadline(cur)
    /\ LET r == ReadlineResult(cur) IN
         /\ r.line # <<>>
         /\ stderr_data' = stderr_data \o r.line
         /\ buf' = [buf EXCEPT ![cur] = r.buf]
         /\ pipe' = [pipe EXCEPT ![cur] = r.pipe]
    /\ pc' = AfterEvent
    /\ UNCHANGED <<callVars, stdout_data, chunks, ttft_ms, timed_out,
                   exit_code, streamLocals, selVars, procVars, wopen, mid, nw,
                   res, raised, cbLog, written, cin, expired>>
    /\ UNCHANGED notExec

\* lines 216-223: fileobj.read() of every stream still registered
Drained(s) == IF s \in registered THEN buf[s] \o pipe[s] ELSE <<>>

\* lines 213-224: process.poll() finds the child gone
PollExited ==
    /\ pc = "poll"
    /\ child = "exited"
    /\ child' = "reaped"
    /\ returncode' = childCode
    /\ stdout_data' = stdout_data \o Drained("out")
    /\ stderr_data' = stderr_data \o Drained("err")
    /\ buf' = [s \in Streams |-> IF s \in registered THEN <<>> ELSE buf[s]]
    /\ pipe' = [s \in Streams |-> IF s \in registered THEN <<>> ELSE pipe[s]]
    /\ pc' = "wait"
    /\ UNCHANGED <<callVars, chunks, ttft_ms, timed_out, exit_code,
                   streamLocals, selVars, childCode, wopen, mid, nw, res,
                   raised, cbLog, written, cin, expired>>
    /\ UNCHANGED notExec

\* lines 213-214: process.poll() finds the child running
PollRunning ==
    /\ pc = "poll"
    /\ child = "running"
    /\ pc' = "loop"
    /\ UNCHANGED <<callVars, runLocals, streamLocals, selVars, procVars,
                   pipeVars, res, raised, cbLog, written, cin, expired>>
    /\ UNCHANGED notExec

\* lines 226-230, 95, 124, 133-143: sel.close(), process.wait() and the
\* return of _stream_output and of run.  wait() has no timeout: it returns
\* once the child has exited.
StreamReturn ==
    /\ pc = "wait"
    /\ child \in {"exited", "reaped"}
    /\ child' = "reaped"
    /\ returncode' = childCode
    /\ ttft_ms' = s_ttft
    /\ timed_out' = s_timed_out
    /\ exit_code' = childCode
    /\ res' = Result(stdout_data, stderr_data, childCode, s_timed_out, s_ttft,
                     chunks)
    /\ pc' = "done"
    /\ Released
    /\ UNCHANGED <<callVars, stdout_data, stderr_data, chunks, childCode,
                   raised, cbLog, written, cin>>
    /\ UNCHANGED notExec

\* ------------------------------------------------------- non-streaming run
\* lines 107-110: communicate writes the input and closes the pipe
CommStdin ==
    /\ pc = "communicate"
    /\ cin.mode = "pipe" /\ ~cin.eof
    /\ cin' = [mode |-> "pipe", data |-> call.stdin, eof |-> TRUE]
    /\ UNCHANGED <<callVars, pc, runLocals, streamLocals, selVars, procVars,
                   pipeVars, res, raised, cbLog, written, expired>>
    /\ UNCHANGED notExec

\* lines 107-112, 124, 133-143: communicate returns everything read up to
\* end of file on both pipes, once the child has exited.
CommFinish ==
    /\ pc = "communicate"
    /\ child = "exited"
    /\ cin.mode = "pipe" => cin.eof
    /\ child' = "reaped"
    /\ returncode' = childCode
    /\ stdout_data' = pipe["out"]
    /\ stderr_data' = pipe["err"]
    /\ exit_code' = childCode
    /\ res' = Result(pipe["out"], pipe["err"], childCode, timed_out, ttft_ms,
                     chunks)
    /\ pc' = "done"
    /\ Released
    /\ UNCHANGED <<callVars, chunks, ttft_ms, timed_out, childCode, raised,
                   cbLog, written, cin>>
    /\ UNCHANGED notExec

\* lines 113-124, 133-143: communicate raises TimeoutExpired; the group is
\* killed and waited for.  What communicate had read stays inside the Popen
\* object: nothing is appended to stdout_data or stderr_data.
CommTimeout ==
    /\ pc = "communicate"
    /\ expired
    /\ timed_out' = TRUE
    /\ child' = "reaped"
    /\ childCode' = CodeAfterKill
    /\ returncode' = CodeAfterKill
    /\ exit_code' = CodeAfterKill
    /\ res' = Result(stdout_data, stderr_data, CodeAfterKill, TRUE, ttft_ms,
                     chunks)
    /\ pc' = "done"
    /\ Released
    /\ UNCHANGED <<callVars, stdout_data, stderr_data, chunks, ttft_ms, raised,
                   cbLog, written, cin>>
    /\ UNCHANGED notExec

\* ------------------------------------------------------------- the child
Parts(s) == IF s = "out" THEN {"line", "blank", "head"} ELSE {"line", "head"}

\* The child writes to one of its output streams: a whole line, or text
\* without a newline, later the rest of that line.
ChildWrite(s) ==
    /\ pc # "done"
    /\ child = "running"
    /\ wopen[s]
    /\ \E part \in (IF mid[s] THEN {"tail"} ELSE Parts(s)) :
         LET n == IF mid[s] THEN nw[s] ELSE nw[s] + 1
             f == <<s, n, part, "">> IN
           /\ n <= MaxWrites(s)
           /\ pipe' = [pipe EXCEPT ![s] = Append(@, f)]
           /\ written' = [written EXCEPT ![s] = Append(@, f)]
           /\ nw' = [nw EXCEPT ![s] = n]
           /\ mid' = [mid EXCEPT ![s] = (part = "head")]
    /\ UNCHANGED <<callVars, pc, runLocals, streamLocals, selVars, procVars,
                   buf, wopen, res, raised, cbLog, cin, expired>>
    /\ UNCHANGED notExec

\* The child closes one of its output streams and keeps running.
ChildClose(s) ==
    /\ pc # "done"
    /\ child = "running"
    /\ wopen[s]
    /\ wopen' = [wopen EXCEPT ![s] = FALSE]
    /\ UNCHANGED <<callVars, pc, runLocals, streamLocals, selVars, procVars,
                   pipe, buf, mid, nw, res, raised, cbLog, written, cin,
                   expired>>
    /\ UNCHANGED notExec

\* The child exits on its own.
ChildExit ==
    /\ pc # "done"
    /\ child = "running"
    /\ \E code \in NaturalCodes : childCode' = code
    /\ child' = "exited"
    /\ wopen' = [s \in Streams |-> FALSE]
    /\ UNCHANGED <<callVars, pc, runLocals, streamLocals, selVars, returncode,
                   pipe, buf, mid, nw, res, raised, cbLog, written, cin,
                   expired>>
    /\ UNCHANGED notExec

\* Time passes start_time + timeout.
DeadlinePasses ==
    /\ pc \notin {"start", "done"}
    /\ ~expired
    /\ expired' = TRUE
    /\ UNCHANGED <<callVars, pc, runLocals, streamLocals, selVars, procVars,
                   pipeVars, res, raised, cbLog, written, cin>>
    /\ UNCHANGED notExec

\* The caller makes another run call on the same executor.
NewCall ==
    /\ pc = "done"
    /\ ncalls < MaxCalls
    /\ ncalls' = ncalls + 1
    /\ \E c \in Calls : FreshNext(c)
    /\ UNCHANGED notExec

ExecNext ==
    \/ PopenNotFound \/ PopenBadCwd \/ PopenDenied \/ PopenOk
    \/ StreamSetup \/ StreamSetupBrokenPipe
    \/ LoopExit \/ LoopTimeout \/ Select \/ PickEvent
    \/ ReadEof \/ ReadStdoutLine \/ ReadStdoutLineCallbackRaises
    \/ ReadStderrLine \/ PollExited \/ PollRunning \/ StreamReturn
    \/ CommStdin \/ CommFinish \/ CommTimeout
    \/ \E s \in Streams : ChildWrite(s)
    \/ \E s \in Streams : ChildClose(s)
    \/ ChildExit \/ DeadlinePasses
    \/ NewCall

\* =================================================== the fallback runner
MaxCand == 3    \* length of candidate_models

Models == {"m1", "m2", "m3"}

\* Text is a sequence of pieces; an optional text is None or a text.
None == [null |-> TRUE, text |-> <<>>]
Text(t) == [null |-> FALSE, text |-> t]
Falsy(o) == o.null \/ o.text = <<>>     \* `not o` for str | None

RECURSIVE Join(_, _)
Join(texts, sep) ==
    IF texts = <<>> THEN <<>>
    ELSE IF Len(texts) = 1 THEN Head(texts)
    ELSE Head(texts) \o <<sep>> \o Join(Tail(texts), sep)

SeqsUpTo(S, n) == UNION { [1..k -> S] : k \in 0..n }

\* What adapter.run may do on one attempt: return a RunResult (its output
\* names the attempt that produced it) or raise.
Errors == {None, Text(<<>>), Text(<<"errA">>), Text(<<"errB">>)}
ExitCodes == {0, 2}
ExceptionTexts == {"boom"}

RunResult(output, code, error) ==
    [output |-> output, exit_code |-> code, error |-> error]

AdapterReturns(model, k) ==
    { RunResult(<<"output of ", model, ToString(k)>>, code, error) :
        code \in ExitCodes, error \in Errors }

NoFallbackReturn ==
    [result |-> RunResult(<<>>, 0, None), final_model |-> "", fallback_used |-> FALSE]

FbIdle ==
    /\ candidate_models = <<>>
    /\ fpc = "idle"
    /\ fidx = 0
    /\ failures = <<>>
    /\ last_result = <<>>
    /\ final_model = ""
    /\ fallback_used = FALSE
    /\ attempts = <<>>
    /\ fret = NoFallbackReturn

\* lines 71-76: the call, with any list of candidates
FbInit ==
    /\ candidate_models \in SeqsUpTo(Models, MaxCand)
    /\ fpc = "start"
    /\ fidx = 0
    /\ failures = <<>>
    /\ last_result = <<>>
    /\ final_model = ""
    /\ fallback_used = FALSE
    /\ attempts = <<>>
    /\ fret = NoFallbackReturn

\* lines 77-80: candidate_models[0] raises IndexError on an empty list
FbStart ==
    /\ fpc = "start"
    /\ IF candidate_models = <<>>
       THEN /\ fpc' = "raised"
            /\ UNCHANGED <<final_model, fidx>>
       ELSE /\ final_model' = candidate_models[1]
            /\ fidx' = 1
            /\ fpc' = "loop"
    /\ UNCHANGED <<candidate_models, failures, last_result, fallback_used,
                   attempts, fret>>
    /\ UNCHANGED notFallback

\* Success read off the error field instead of the exit code.
Succeeded_ByError(result) == result.error.null

\* line 105: `result.exit_code == 0`
Succeeded(result) == result.exit_code = 0

\* The flag set only from the second fallback on.
FallbackUsed_FromSecondFallback(idx) == idx > 2

\* line 85: `fallback_used = idx > 0`; idx counts from 0, fidx from 1
FallbackUsed(idx) == idx > 1

\* line 108: result.error or f"exit_code={result.exit_code}"
FailureReason(result) ==
    IF Falsy(result.error)
    THEN <<"exit_code=", ToString(result.exit_code)>>
    ELSE result.error.text

\* lines 90, 109: f"{model_name}: {reason}"
FailureEntry(model, reason) == <<model, ": ">> \o reason

\* lines 82-88, 104-109: one pass of the loop in which adapter.run returns
FbAttemptReturns ==
    /\ fpc = "loop"
    /\ fidx <= Len(candidate_models)
    /\ LET model_name == candidate_models[fidx] IN
       \E result \in AdapterReturns(model_name, fidx) :
         /\ final_model' = model_name
         /\ fallback_used' = FallbackUsed(fidx)
         /\ attempts' = Append(attempts, [model |-> model_name, raised |-> FALSE,
                                          exc |-> "", result |-> result])
         /\ last_result' = <<result>>
         /\ IF Succeeded(result)
            THEN /\ fret' = [result |-> result, final_model |-> model_name,
                             fallback_used |-> FallbackUsed(fidx)]
                 /\ fpc' = "done"
                 /\ UNCHANGED <<failures, fidx>>
            ELSE /\ failures' = Append(failures,
                                   FailureEntry(model_name, FailureReason(result)))
                 /\ fidx' = fidx + 1
                 /\ UNCHANGED <<fret, fpc>>
    /\ UNCHANGED candidate_models
    /\ UNCHANGED notFallback

\* lines 82-102: one pass of the loop in which adapter.run raises
FbAttemptRaises ==
    /\ fpc = "loop"
    /\ fidx <= Len(candidate_models)
    /\ LET model_name == candidate_models[fidx] IN
       \E exc \in ExceptionTexts :
         /\ final_model' = model_name
         /\ fallback_used' = FallbackUsed(fidx)
         /\ attempts' = Append(attempts, [model |-> model_name, raised |-> TRUE,
                                          exc |-> exc,
                                          result |-> RunResult(<<>>, 1, None)])
         /\ failures' = Append(failures, FailureEntry(model_name, <<exc>>))
         /\ IF fidx = Len(candidate_models)
            THEN /\ fret' = [result |-> RunResult(<<>>, 1,
                                          Text(Join(failures', "; "))),
                             final_model |-> model_name,
                             fallback_used |-> FallbackUsed(fidx)]
                 /\ fpc' = "done"
                 /\ UNCHANGED fidx
            ELSE /\ fidx' = fidx + 1
                 /\ UNCHANGED <<fret, fpc>>
    /\ UNCHANGED <<candidate_models, last_result>>
    /\ UNCHANGED notFallback

\* The history written only into a result that has no error of its own.
WithAttempts_OnlyIfEmpty(result, fails) ==
    IF fails # <<>> /\ Falsy(result.error)
    THEN [result EXCEPT !.error = Text(<<"attempts: ">> \o Join(fails, "; "))]
    ELSE result

\* lines 123-128: the attempt history is written into the last result's error
WithAttempts(result, fails) ==
    IF fails = <<>> THEN result
    ELSE IF Falsy(result.error)
    THEN [result EXCEPT !.error = Text(<<"attempts: ">> \o Join(fails, "; "))]
    ELSE [result EXCEPT !.error =
            Text(result.error.text \o <<" | attempts: ">> \o Join(fails, "; "))]

\* lines 111-130: the loop ran out of candidates
FbExhausted ==
    /\ fpc = "loop"
    /\ fidx > Len(candidate_models)
    /\ fret' = [result |-> IF last_result = <<>>
                           THEN RunResult(<<>>, 1,
                                    Text(<<"No model attempts were executed">>))
                           ELSE WithAttempts(last_result[1], failures),
                final_model |-> final_model,
                fallback_used |-> fallback_used]
    /\ last_result' = IF last_result = <<>> THEN last_result
                      ELSE <<WithAttempts(last_result[1], failures)>>
    /\ fpc' = "done"
    /\ UNCHANGED <<candidate_models, fidx, failures, final_model, fallback_used,
                   attempts>>
    /\ UNCHANGED notFallback

FbNext == FbStart \/ FbAttemptReturns \/ FbAttemptRaises \/ FbExhausted

\* ================================================ the subprocess adapters
\* Strings that end up in argv are sequences of characters, so that
\* `prompt in arg` is the substring test it is in the code.
IsSubstring(sub, str) ==
    \E i \in 0..(Len(str) - Len(sub)) : SubSeq(str, i + 1, i + Len(sub)) = sub

\* The fixed words of the adapters' command lines
Flag_p == <<"-", "p">>
Dash == <<"-">>
Flag_output_format == <<"-", "-", "o", "u", "t", "p", "u", "t", "-", "f", "o", "r", "m", "a", "t">>
Word_text == <<"t", "e", "x", "t">>
Word_exec == <<"e", "x", "e", "c">>
Word_run == <<"r", "u", "n">>
Flag_m == <<"-", "m">>
Flag_no_display_prompt == <<"-", "-", "n", "o", "-", "d", "i", "s", "p", "l", "a", "y", "-", "p", "r", "o", "m", "p", "t">>
Flag_n == <<"-", "n">>
Word_512 == <<"5", "1", "2">>
Word_complete == <<"c", "o", "m", "p", "l", "e", "t", "e">>
Flag_quick == <<"-", "-", "q", "u", "i", "c", "k">>
Flag_model == <<"-", "-", "m", "o", "d", "e", "l">>

AdapterNames == {"claude", "codex", "goose", "ollama", "llamacpp", "vllm"}

\* The path _get_binary returns for an adapter: the binary_path override,
\* else what shutil.which finds, else None (the empty sequence here).
InstalledPath(name) ==
    CASE name = "claude" -> <<"/", "b", "i", "n", "/", "c", "l", "a", "u", "d", "e">>
      [] name = "codex" -> <<"/", "b", "i", "n", "/", "c", "o", "d", "e", "x">>
      [] name = "goose" -> <<"/", "b", "i", "n", "/", "g", "o", "o", "s", "e">>
      [] name = "ollama" -> <<"/", "b", "i", "n", "/", "o", "l", "l", "a", "m", "a">>
      [] name = "llamacpp" -> <<"/", "b", "i", "n", "/", "l", "l", "a", "m", "a", "-", "c", "l", "i">>
      [] name = "vllm" -> <<"/", "b", "i", "n", "/", "v", "l", "l", "m">>

OverridePath == <<"/", "o", "p", "t", "/", "t", "o", "o", "l">>

GetBinary(a) ==
    IF a.override # "none" THEN OverridePath
    ELSE IF a.onPath THEN InstalledPath(a.name)
    ELSE <<>>

\* whether the file _get_binary names exists
BinaryExists(a) == IF a.override # "none" THEN a.override = "exists" ELSE a.onPath

Adapters ==
    { a \in [name : AdapterNames, override : {"none", "exists", "gone"},
             onPath : BOOLEAN, timeout : {300}] :
        a.override # "none" => a.onPath }

\* Prompts: secret text, and text that looks like a flag.  Their characters
\* occur in no flag, path or model name of the adapters.
Prompts == { <<"S", "3", "C", "R", "3", "T">>, <<"-", "S">>, <<"-", "-", "K", "=", "S">> }

ModelNames == { <<"m", "1">>, <<"o", "r", "g", "/", "m", "2">>, <<>> }

\* llamacpp.py lines 124-141: the model file _find_model finds for a model
\* name, None (the empty sequence) when there is none
FindModel(model_name, haveFile) ==
    IF haveFile /\ model_name # <<>>
    THEN <<"/", "m", "o", "d", "e", "l", "s", "/">> \o model_name \o <<".", "g", "g", "u", "f">>
    ELSE <<>>

RunOptionsSet ==
    [model : ModelNames, stream : BOOLEAN, stream_callback : BOOLEAN,
     timeout : {300, 42}, haveModelFile : BOOLEAN]

\* What SubprocessExecutor.run returns to an adapter, by the executor's
\* contract: 127 for a binary that does not exist, else the child's outcome,
\* a timeout or an execution error.  A child that another process kills
\* with SIGKILL has return code -9 like one the executor killed at the
\* deadline; only timed_out tells the two apart.
ExecutorResult(out, err, code, to, ttft, ch) ==
    [stdout |-> out, stderr |-> err, exit_code |-> code, wall_time_ms |-> 7,
     timed_out |-> to, ttft_ms |-> ttft, chunks |-> ch]

ExecutorResults(exists, streaming) ==
    IF ~exists
    THEN { ExecutorResult(<<>>, <<"Command not found: ">>, 127, FALSE, 0, <<>>) }
    ELSE { ExecutorResult(<<"answer">>, <<>>, 0, FALSE,
                          IF streaming THEN 5 ELSE 0,
                          IF streaming THEN <<"answer">> ELSE <<>>),
           ExecutorResult(<<"answer">>, <<"warning">>, 0, FALSE, 0, <<>>),
           ExecutorResult(<<>>, <<"failed">>, 2, FALSE, 0, <<>>),
           ExecutorResult(<<>>, <<>>, 2, FALSE, 0, <<>>),
           ExecutorResult(<<>>, <<>>, -SIGKILL, TRUE, 0, <<>>),
           ExecutorResult(<<>>, <<>>, -SIGKILL, FALSE, 0, <<>>),
           ExecutorResult(<<>>, <<"Execution error: ">>, 1, FALSE, 0, <<>>) }

\* executor.py lines 47-53 and 232-238: the keyword arguments run and
\* run_with_stdin_prompt take besides args and stdin / prompt
ExecutorKeywords == {"cwd", "stream_callback"}

\* A call of the executor: run_with_stdin_prompt(args, prompt, ...) is
\* run(args, stdin=prompt, ...) (line 253); a stdin that was not passed is
\* None.  The bound of the call is the timeout the executor was built with.
ExecutorCall(a, method, args, hasStdin, stdin, callback, keywords) ==
    [method |-> method, args |-> args, hasStdin |-> hasStdin, stdin |-> stdin,
     stream_callback |-> callback, keywords |-> keywords,
     timeout |-> a.timeout]

AdapterRunResult(output, code, wall, ttft, error, ch) ==
    [output |-> output, exit_code |-> code, wall_time_ms |-> wall,
     ttft_ms |-> ttft, error |-> error, chunks |-> ch]

NoRunResult == AdapterRunResult(<<>>, -1, 0, 0, None, <<>>)

AdIdle ==
    /\ adapter = [name |-> "claude", override |-> "none", onPath |-> TRUE,
                  timeout |-> 300]
    /\ prompt = <<>>
    /\ options = [model |-> <<>>, stream |-> FALSE, stream_callback |-> FALSE,
                  timeout |-> 300, haveModelFile |-> FALSE]
    /\ apc = "idle"
    /\ handed = <<>>
    /\ returned = <<>>
    /\ runResult = NoRunResult

AdInit ==
    /\ adapter \in Adapters
    /\ prompt \in Prompts
    /\ options \in RunOptionsSet
    /\ apc = "call"
    /\ handed = <<>>
    /\ returned = <<>>
    /\ runResult = NoRunResult

\* The common shape of the run methods: no binary gives exit code 127; a
\* call with a keyword the executor does not take raises TypeError; else the
\* executor's result is turned into a RunResult.  keepTtft and keepChunks
\* say which of ttft_ms and chunks the adapter copies.
NotFound(text) == AdapterRunResult(<<>>, 127, 0, 0, Text(<<text>>), <<>>)

\* The error taken from stderr whenever there is any, whatever the exit code.
FromExecutor_ErrorIfStderr(r, keepTtft, keepChunks) ==
    AdapterRunResult(r.stdout, r.exit_code, r.wall_time_ms,
                     IF keepTtft THEN r.ttft_ms ELSE 0,
                     IF r.stderr # <<>> THEN Text(r.stderr) ELSE None,
                     IF keepChunks THEN r.chunks ELSE <<>>)

FromExecutor(r, keepTtft, keepChunks) ==
    AdapterRunResult(r.stdout, r.exit_code, r.wall_time_ms,
                     IF keepTtft THEN r.ttft_ms ELSE 0,
                     IF r.exit_code # 0 THEN Text(r.stderr) ELSE None,
                     IF keepChunks THEN r.chunks ELSE <<>>)

CallExecutor(c, keepTtft, keepChunks) ==
    IF c.keywords \subseteq ExecutorKeywords
    THEN /\ handed' = Append(handed, c)
         /\ \E r \in ExecutorResults(BinaryExists(adapter), c.stream_callback) :
              /\ returned' = Append(returned, r)
              /\ runResult' = FromExecutor(r, keepTtft, keepChunks)
         /\ apc' = "done"
    ELSE /\ apc' = "raised"
         /\ UNCHANGED <<handed, returned, runResult>>

Returns(result) ==
    /\ runResult' = result
    /\ apc' = "done"
    /\ UNCHANGED <<handed, returned>>

\* claude.py lines 63-78
ClaudeRun ==
    /\ apc = "call" /\ adapter.name = "claude"
    /\ LET binary == GetBinary(adapter) IN
       IF binary = <<>> THEN Returns(NotFound("claude not found"))
       ELSE CallExecutor(
              ExecutorCall(adapter, "run_with_stdin_prompt",
                  <<binary, Flag_p, Dash, Flag_output_format, Word_text>>,
                  TRUE, prompt, FALSE, {}),
              FALSE, FALSE)
    /\ UNCHANGED <<adapter, prompt, options>>
    /\ UNCHANGED notAdapters

\* codex.py lines 60-75
CodexRun ==
    /\ apc = "call" /\ adapter.name = "codex"
    /\ LET binary == GetBinary(adapter) IN
       IF binary = <<>> THEN Returns(NotFound("codex not found"))
       ELSE CallExecutor(
              ExecutorCall(adapter, "run", <<binary, Word_exec, prompt>>,
                  FALSE, <<>>, FALSE, {}),
              FALSE, FALSE)
    /\ UNCHANGED <<adapter, prompt, options>>
    /\ UNCHANGED notAdapters

\* goose.py lines 61-76
GooseRun ==
    /\ apc = "call" /\ adapter.name = "goose"
    /\ LET binary == GetBinary(adapter) IN
       IF binary = <<>> THEN Returns(NotFound("goose not found"))
       ELSE CallExecutor(
              ExecutorCall(adapter, "run_with_stdin_prompt",
                  <<binary, Word_run, Dash>>, TRUE, prompt, FALSE, {"timeout"}),
              FALSE, FALSE)
    /\ UNCHANGED <<adapter, prompt, options>>
    /\ UNCHANGED notAdapters

\* ollama.py lines 129-156
OllamaRun ==
    /\ apc = "call" /\ adapter.name = "ollama"
    /\ LET binary == GetBinary(adapter)
           args == <<binary, Word_run, options.model>> IN
       IF binary = <<>> THEN Returns(NotFound("ollama not found"))
       ELSE IF options.stream /\ options.stream_callback
       THEN CallExecutor(
              ExecutorCall(adapter, "run", args, TRUE, prompt, TRUE,
                           {"stream_callback"}),
              TRUE, TRUE)
       ELSE CallExecutor(
              ExecutorCall(adapter, "run_with_stdin_prompt", args, TRUE,
                           prompt, FALSE, {}),
              TRUE, TRUE)
    /\ UNCHANGED <<adapter, prompt, options>>
    /\ UNCHANGED notAdapters

\* llamacpp.py lines 87-122
LlamaCppRun ==
    /\ apc = "call" /\ adapter.name = "llamacpp"
    /\ LET binary == GetBinary(adapter)
           model_path == FindModel(options.model, options.haveModelFile) IN
       IF binary = <<>> THEN Returns(NotFound("llama.cpp not found"))
       ELSE IF model_path = <<>>
       THEN Returns(AdapterRunResult(<<>>, 1, 0, 0,
                                     Text(<<"Model not found: ">>), <<>>))
       ELSE CallExecutor(
              ExecutorCall(adapter, "run_with_stdin_prompt",
                  <<binary, Flag_m, model_path, Flag_p, Dash,
                    Flag_no_display_prompt, Flag_n, Word_512>>,
                  TRUE, prompt, FALSE, {}),
              TRUE, FALSE)
    /\ UNCHANGED <<adapter, prompt, options>>
    /\ UNCHANGED notAdapters

\* vllm.py lines 65-89
VllmRun ==
    /\ apc = "call" /\ adapter.name = "vllm"
    /\ LET binary == GetBinary(adapter)
           args == <<binary, Word_complete, Flag_quick, Dash>>
                   \o (IF options.model # <<>>
                       THEN <<Flag_model, options.model>> ELSE <<>>) IN
       IF binary = <<>> THEN Returns(NotFound("vllm not found"))
       ELSE CallExecutor(
              ExecutorCall(adapter, "run_with_stdin_prompt", args, TRUE,
                           prompt, FALSE, {}),
              TRUE, FALSE)
    /\ UNCHANGED <<adapter, prompt, options>>
    /\ UNCHANGED notAdapters

AdNext == ClaudeRun \/ CodexRun \/ GooseRun \/ OllamaRun \/ LlamaCppRun \/ VllmRun

\* ====================================================== the API adapters
MaxApiCalls == 2    \* run calls made on one API adapter

ApiNames == {"openai", "anthropic"}

\* openai.py line 38, anthropic.py line 37: `api_key or os.environ.get(...)`.
\* "none" is None / an unset variable, "empty" the empty string.
ApiKey(arg, env) == IF arg \in {"none", "empty"} THEN env ELSE arg

ApiAdapters ==
    { [name |-> n, key |-> ApiKey(arg, env), sdk |-> sdk] :
        n \in ApiNames, arg \in {"none", "empty", "sk-arg"},
        env \in {"none", "empty", "sk-env"}, sdk \in BOOLEAN }

ApiOptionsSet == [model : {<<>>, <<"m">>}, timeout : {300, 42}]

KeyNotSet(name) ==
    IF name = "openai"
    THEN <<"OPENAI_API_KEY not set. Set it in your environment or pass api_key.">>
    ELSE <<"ANTHROPIC_API_KEY not set. Set it in your environment or pass api_key.">>

SdkNotInstalled(name) ==
    IF name = "openai"
    THEN <<"OpenAI SDK not installed. Install with: pip install mrbench[api]">>
    ELSE <<"Anthropic SDK not installed. Install with: pip install mrbench[api]">>

\* What the client constructor or the client call may raise: str(e) of an
\* exception can be empty.
ClientExceptions ==
    { [kind |-> "APIError", text |-> <<"rate limit">>],
      [kind |-> "APIError", text |-> <<>>],
      [kind |-> "TimeoutError", text |-> <<"timed out">>] }

\* What the client call may return.  openai: response.choices (possibly
\* empty) and the first choice's message.content (possibly None).
\* anthropic: response.content, blocks with or without a text attribute.
Responses(name) ==
    IF name = "openai"
    THEN { [choices |-> 0, content |-> None, blocks |-> <<>>],
           [choices |-> 1, content |-> None, blocks |-> <<>>],
           [choices |-> 1, content |-> Text(<<"answer">>), blocks |-> <<>>] }
    ELSE { [choices |-> 0, content |-> None, blocks |-> b] :
             b \in { <<>>, <<Text(<<"ans">>)>>, <<None, Text(<<"wer">>)>>,
                     <<Text(<<"ans">>), Text(<<"wer">>)>> } }

NoResponse == [choices |-> 0, content |-> None, blocks |-> <<>>]
NoEvent == [kind |-> "none", text |-> <<>>]

ApiIdle ==
    /\ apiAdapter = [name |-> "openai", key |-> "none", sdk |-> FALSE]
    /\ apiClient = FALSE
    /\ apiOptions = [model |-> <<>>, timeout |-> 300]
    /\ apiPc = "idle"
    /\ apiResponse = NoResponse
    /\ apiEvent = NoEvent
    /\ apiCalls = 0
    /\ apiResult = NoRunResult

ApiInit ==
    /\ apiAdapter \in ApiAdapters
    /\ apiClient = FALSE
    /\ apiOptions \in ApiOptionsSet
    /\ apiPc = "call"
    /\ apiResponse = NoResponse
    /\ apiEvent = NoEvent
    /\ apiCalls = 1
    /\ apiResult = NoRunResult

\* openai.py lines 124-129, 155-160; anthropic.py lines 108-113, 157-162
ApiFailure(text) == AdapterRunResult(<<>>, 1, 0, 0, Text(text), <<>>)

\* Only the SDK's own errors caught.
Caught_ApiErrorsOnly(kind) == kind = "APIError"

\* openai.py line 154, anthropic.py line 156: `except Exception`.  Every
\* exception the try block can raise is an Exception.
Caught(kind) == kind \in {"ImportError", "APIError", "TimeoutError", "IndexError"}

\* An exception of this kind and text leaves the try block of run.
ApiExcept(kind, text) ==
    /\ apiEvent' = [kind |-> kind, text |-> text]
    /\ IF Caught(kind)
       THEN apiResult' = ApiFailure(text) /\ apiPc' = "done"
       ELSE apiPc' = "raised" /\ UNCHANGED apiResult

\* openai.py lines 123-129, anthropic.py lines 107-113
ApiNoKey ==
    /\ apiPc = "call"
    /\ apiAdapter.key = "none"
    /\ apiEvent' = [kind |-> "nokey", text |-> KeyNotSet(apiAdapter.name)]
    /\ apiResult' = ApiFailure(KeyNotSet(apiAdapter.name))
    /\ apiPc' = "done"
    /\ UNCHANGED <<apiAdapter, apiClient, apiOptions, apiResponse, apiCalls>>
    /\ UNCHANGED notApi

\* openai.py lines 131-133, anthropic.py lines 115-117
ApiEnterTry ==
    /\ apiPc = "call"
    /\ apiAdapter.key # "none"
    /\ apiPc' = "client"
    /\ UNCHANGED <<apiAdapter, apiClient, apiOptions, apiResponse, apiEvent,
                   apiCalls, apiResult>>
    /\ UNCHANGED notApi

\* _get_client, lines 51-53 / 50-52: the client made by an earlier call
ApiGetClientCached ==
    /\ apiPc = "client"
    /\ apiClient
    /\ apiPc' = "create"
    /\ UNCHANGED <<apiAdapter, apiClient, apiOptions, apiResponse, apiEvent,
                   apiCalls, apiResult>>
    /\ UNCHANGED notApi

\* _get_client, lines 55-60 / 54-59: the SDK is not installed
ApiGetClientImportError ==
    /\ apiPc = "client"
    /\ ~apiClient /\ ~apiAdapter.sdk
    /\ ApiExcept("ImportError", SdkNotInstalled(apiAdapter.name))
    /\ UNCHANGED <<apiAdapter, apiClient, apiOptions, apiResponse, apiCalls>>
    /\ UNCHANGED notApi

\* _get_client, lines 62-67 / 61-66: the client is constructed and kept
ApiGetClientNew ==
    /\ apiPc = "client"
    /\ ~apiClient /\ apiAdapter.sdk
    /\ apiClient' = TRUE
    /\ apiPc' = "create"
    /\ UNCHANGED <<apiAdapter, apiOptions, apiResponse, apiEvent, apiCalls,
                   apiResult>>
    /\ UNCHANGED notApi

\* _get_client, lines 62-66 / 61-65: the constructor raises
ApiGetClientRaises ==
    /\ apiPc = "client"
    /\ ~apiClient /\ apiAdapter.sdk
    /\ \E e \in ClientExceptions : ApiExcept(e.kind, e.text)
    /\ UNCHANGED <<apiAdapter, apiClient, apiOptions, apiResponse, apiCalls>>
    /\ UNCHANGED notApi

\* openai.py lines 137-141, anthropic.py lines 121-126: the client call raises
ApiCreateRaises ==
    /\ apiPc = "create"
    /\ \E e \in ClientExceptions : ApiExcept(e.kind, e.text)
    /\ UNCHANGED <<apiAdapter, apiClient, apiOptions, apiResponse, apiCalls>>
    /\ UNCHANGED notApi

\* openai.py lines 137-143, anthropic.py lines 121-128: the client call returns
ApiCreateReturns ==
    /\ apiPc = "create"
    /\ apiResponse' \in Responses(apiAdapter.name)
    /\ apiPc' = "read"
    /\ UNCHANGED <<apiAdapter, apiClient, apiOptions, apiEvent, apiCalls,
                   apiResult>>
    /\ UNCHANGED notApi

\* anthropic.py lines 130-133: the text of the blocks that have one
RECURSIVE BlockText(_)
BlockText(blocks) ==
    IF blocks = <<>> THEN <<>>
    ELSE (IF Head(blocks).null THEN <<>> ELSE Head(blocks).text)
         \o BlockText(Tail(blocks))

\* openai.py lines 147-153, anthropic.py lines 147-155
ApiSuccess(output) == AdapterRunResult(output, 0, 7, 0, None, <<>>)

\* openai.py line 145: response.choices[0] of a response without choices
ApiReadOpenAINoChoice ==
    /\ apiPc = "read"
    /\ apiAdapter.name = "openai"
    /\ apiResponse.choices = 0
    /\ ApiExcept("IndexError", <<"list index out of range">>)
    /\ UNCHANGED <<apiAdapter, apiClient, apiOptions, apiResponse, apiCalls>>
    /\ UNCHANGED notApi

\* openai.py lines 145-153: `message.content or ""`
ApiReadOpenAI ==
    /\ apiPc = "read"
    /\ apiAdapter.name = "openai"
    /\ apiResponse.choices > 0
    /\ apiEvent' = [kind |-> "ok", text |-> <<>>]
    /\ apiResult' = ApiSuccess(IF Falsy(apiResponse.content) THEN <<>>
                               ELSE apiResponse.content.text)
    /\ apiPc' = "done"
    /\ UNCHANGED <<apiAdapter, apiClient, apiOptions, apiResponse, apiCalls>>
    /\ UNCHANGED notApi

\* anthropic.py lines 130-155
ApiReadAnthropic ==
    /\ apiPc = "read"
    /\ apiAdapter.name = "anthropic"
    /\ apiEvent' = [kind |-> "ok", text |-> <<>>]
    /\ apiResult' = ApiSuccess(BlockText(apiResponse.blocks))
    /\ apiPc' = "done"
    /\ UNCHANGED <<apiAdapter, apiClient, apiOptions, apiResponse, apiCalls>>
    /\ UNCHANGED notApi

\* The caller makes another run call on the same adapter.
ApiNewCall ==
    /\ apiPc = "done"
    /\ apiCalls < MaxApiCalls
    /\ apiCalls' = apiCalls + 1
    /\ apiOptions' \in ApiOptionsSet
    /\ apiPc' = "call"
    /\ apiResponse' = NoResponse
    /\ apiEvent' = NoEvent
    /\ apiResult' = NoRunResult
    /\ UNCHANGED <<apiAdapter, apiClient>>
    /\ UNCHANGED notApi

ApiNext ==
    \/ ApiNoKey \/ ApiEnterTry
    \/ ApiGetClientCached \/ ApiGetClientImportError
    \/ ApiGetClientNew \/ ApiGetClientRaises
    \/ ApiCreateRaises \/ ApiCreateReturns
    \/ ApiReadOpenAINoChoice \/ ApiReadOpenAI \/ ApiReadAnthropic
    \/ ApiNewCall

\* ==================================================== the adapter registry
MaxReg == 3     \* register calls made on one registry

RegNames == {"ollama", "claude", "fake"}

\* What an adapter's detect() does: report detected, report not detected,
\* or raise.
Detects == {"yes", "no", "raises"}

\* An adapter instance: its name, which register call brought it in, and
\* what its detect() does.
RegAdapter(name, id, detect) == [name |-> name, id |-> id, detect |-> detect]
NoAdapter == RegAdapter("none", 0, "no")

Keys(d) == [i \in 1..Len(d) |-> d[i].name]

\* The items kept in call order, one entry per register call.
SetItem_Append(d, a) == Append(d, a)

\* line 27: `self._adapters[adapter.name] = adapter`.  A dict keeps a key
\* where it was first inserted and replaces its value.
SetItem(d, a) ==
    IF \E i \in 1..Len(d) : d[i].name = a.name
    THEN [i \in 1..Len(d) |-> IF d[i].name = a.name THEN a ELSE d[i]]
    ELSE Append(d, a)

\* lines 29-38: self._adapters.get(name)
Get(name) ==
    IF \E i \in 1..Len(registry) : registry[i].name = name
    THEN registry[CHOOSE i \in 1..Len(registry) : registry[i].name = name]
    ELSE NoAdapter

\* lines 40-46: list(self._adapters.values())
ListAll == registry

\* lines 48-54: list(self._adapters.keys())
ListNames == Keys(registry)

RegIdle ==
    /\ registry = <<>>
    /\ regLog = <<>>
    /\ gpc = "idle"
    /\ gidx = 0
    /\ available = <<>>

\* lines 17-19: an empty registry
RegInit ==
    /\ registry = <<>>
    /\ regLog = <<>>
    /\ gpc = "ready"
    /\ gidx = 0
    /\ available = <<>>

\* lines 21-27: register(adapter)
Register ==
    /\ gpc = "ready"
    /\ Len(regLog) < MaxReg
    /\ \E name \in RegNames, detect \in Detects :
         LET a == RegAdapter(name, Len(regLog) + 1, detect) IN
         /\ registry' = SetItem(registry, a)
         /\ regLog' = Append(regLog, a)
    /\ UNCHANGED <<gpc, gidx, available>>
    /\ UNCHANGED notRegistry

\* line 76: get_available starts the comprehension over the values
GetAvailableStart ==
    /\ gpc = "ready"
    /\ gpc' = "scan"
    /\ gidx' = 1
    /\ available' = <<>>
    /\ UNCHANGED <<registry, regLog>>
    /\ UNCHANGED notRegistry

\* line 76 with base.py lines 137-144: adapter.is_available() returns
\* detect().detected
GetAvailableStep ==
    /\ gpc = "scan"
    /\ gidx <= Len(registry)
    /\ registry[gidx].detect # "raises"
    /\ available' = IF registry[gidx].detect = "yes"
                    THEN Append(available, registry[gidx])
                    ELSE available
    /\ gidx' = gidx + 1
    /\ UNCHANGED <<registry, regLog, gpc>>
    /\ UNCHANGED notRegistry

\* line 76 with base.py line 143: detect() raises; nothing in is_available
\* or get_available catches it
GetAvailableStepRaises ==
    /\ gpc = "scan"
    /\ gidx <= Len(registry)
    /\ registry[gidx].detect = "raises"
    /\ gpc' = "raised"
    /\ UNCHANGED <<registry, regLog, gidx, available>>
    /\ UNCHANGED notRegistry

\* line 76: the list is returned
GetAvailableReturn ==
    /\ gpc = "scan"
    /\ gidx > Len(registry)
    /\ gpc' = "returned"
    /\ UNCHANGED <<registry, regLog, gidx, available>>
    /\ UNCHANGED notRegistry

\* The caller goes on using the registry.
RegContinue ==
    /\ gpc \in {"returned", "raised"}
    /\ Len(regLog) < MaxReg
    /\ gpc' = "ready"
    /\ gidx' = 0
    /\ available' = <<>>
    /\ UNCHANGED <<registry, regLog>>
    /\ UNCHANGED notRegistry

RegNext ==
    \/ Register \/ GetAvailableStart \/ GetAvailableStep
    \/ GetAvailableStepRaises \/ GetAvailableReturn \/ RegContinue

\* ============================================================= the router
MaxAdapters == 5    \* adapters in the list given to route

RouterNames == {"ollama", "claude", "codex", "fake", "vllm"}

\* An optional integer: None or a number
NoInt == [null |-> TRUE, n |-> 0]
SomeInt(n) == [null |-> FALSE, n |-> n]
TruthyInt(o) == ~o.null /\ o.n # 0

\* get_capabilities() and list_models() of the adapters in the list: some
\* offline, some streaming, some tool calling, a context size that is
\* absent, below or above the floor asked for, a model list that may be
\* empty.  A declared context size is a positive number.
CapabilitiesOf(name) ==
    CASE name = "ollama" ->
           [offline |-> TRUE,  streaming |-> TRUE,  tool_calling |-> FALSE,
            max_context |-> NoInt,  models |-> <<"llama3", "phi">>]
      [] name = "claude" ->
           [offline |-> FALSE, streaming |-> TRUE,  tool_calling |-> TRUE,
            max_context |-> SomeInt(8), models |-> <<"sonnet">>]
      [] name = "codex" ->
           [offline |-> FALSE, streaming |-> FALSE, tool_calling |-> TRUE,
            max_context |-> SomeInt(4), models |-> <<>>]
      [] name = "fake" ->
           [offline |-> TRUE,  streaming |-> FALSE, tool_calling |-> FALSE,
            max_context |-> SomeInt(8), models |-> <<"fake-fast">>]
      [] OTHER ->
           [offline |-> TRUE,  streaming |-> TRUE,  tool_calling |-> TRUE,
            max_context |-> NoInt,  models |-> <<>>]

\* The lists given to route: adapters with distinct names, in any order
AdapterLists ==
    { l \in SeqsUpTo(RouterNames, MaxAdapters) :
        \A i, j \in 1..Len(l) : l[i] = l[j] => i = j }

AdapterName(a) == a
Caps(a) == CapabilitiesOf(a)

\* RoutingConstraints (lines 25-33); max_latency_ms is not read by route
ConstraintsSet ==
    [offline_only : BOOLEAN, streaming_required : BOOLEAN,
     tool_calling_required : BOOLEAN, max_context : {NoInt, SomeInt(6)}]

Policies == {"preference", "offline_only", "fastest"}

\* The preference_order argument of Router: None, or a list of names
NoList == [null |-> TRUE, list |-> <<>>]
List(l) == [null |-> FALSE, list |-> l]
PreferenceOrders == {NoList, List(<<>>), List(<<"fake", "claude">>)}

DefaultPreferenceOrder ==
    <<"ollama", "claude", "codex", "gemini", "goose", "opencode">>

\* lines 55-62: `preference_order or [...]`: None and the empty list are
\* both replaced by the default order
PreferenceOrder(given) ==
    IF given.null \/ given.list = <<>> THEN DefaultPreferenceOrder
    ELSE given.list

\* default_models: provider name -> model, "" where the name has no entry
DefaultModelsSet ==
    { [n \in RouterNames |-> ""],
      [n \in RouterNames |-> IF n = "claude" THEN "cfg-claude"
                             ELSE IF n = "vllm" THEN "cfg-vllm" ELSE ""] }

NoRoute == [none |-> TRUE, provider |-> "", model |-> "", alternatives |-> <<>>]
RoutingResult(provider, model, alternatives) ==
    [none |-> FALSE, provider |-> provider, model |-> model,
     alternatives |-> alternatives]

\* The streaming test left out of the filter.
Skipped_NoStreamingTest(caps, c) ==
    \/ c.offline_only /\ ~caps.offline
    \/ c.tool_calling_required /\ ~caps.tool_calling
    \/ /\ TruthyInt(c.max_context) /\ TruthyInt(caps.max_context)
       /\ caps.max_context.n < c.max_context.n

\* lines 93-111: the four `continue` tests of the filter loop
Skipped(caps, c) ==
    \/ c.offline_only /\ ~caps.offline
    \/ c.streaming_required /\ ~caps.streaming
    \/ c.tool_calling_required /\ ~caps.tool_calling
    \/ /\ TruthyInt(c.max_context) /\ TruthyInt(caps.max_context)
       /\ caps.max_context.n < c.max_context.n

\* lines 156-161: list.index(name), or len(list) on ValueError
Key(order, name) ==
    IF \E i \in 1..Len(order) : order[i] = name
    THEN (CHOOSE i \in 1..Len(order) :
            order[i] = name /\ \A j \in 1..(i - 1) : order[j] # name) - 1
    ELSE Len(order)

\* line 163: sorted(candidates, key=key), a stable sort: each item goes
\* after every item already placed whose key is not larger
RECURSIVE SortedByKey(_, _)
SortedByKey(items, order) ==
    IF items = <<>> THEN <<>>
    ELSE LET x == items[Len(items)]
             before == SortedByKey(SubSeq(items, 1, Len(items) - 1), order)
             keep == { i \in 1..Len(before) :
                         Key(order, AdapterName(before[i])) <= Key(order, AdapterName(x)) }
             n == Cardinality(keep) IN
         SubSeq(before, 1, n) \o <<x>> \o SubSeq(before, n + 1, Len(before))

\* The model list asked before the configuration.
ResolveModel_ListFirst(defaults, selected) ==
    IF Caps(selected).models # <<>> THEN Caps(selected).models[1]
    ELSE IF defaults[AdapterName(selected)] # "" THEN defaults[AdapterName(selected)]
    ELSE "default"

\* lines 134-137
ResolveModel(defaults, selected) ==
    IF defaults[AdapterName(selected)] # "" THEN defaults[AdapterName(selected)]
    ELSE IF Caps(selected).models # <<>> THEN Caps(selected).models[1]
    ELSE "default"

\* line 131: [a.name for a, _ in candidates[1:4]]
Alternatives(cands) ==
    [i \in 1..(IF Len(cands) - 1 < 3 THEN Len(cands) - 1 ELSE 3) |->
        AdapterName(cands[i + 1])]

NoConstraints ==
    [offline_only |-> FALSE, streaming_required |-> FALSE,
     tool_calling_required |-> FALSE, max_context |-> NoInt]

RtIdle ==
    /\ router = [policy |-> "preference", given |-> NoList]
    /\ rtAdapters = <<>>
    /\ constraints = NoConstraints
    /\ default_models = [n \in RouterNames |-> ""]
    /\ rtpc = "idle"
    /\ ridx = 0
    /\ candidates = <<>>
    /\ routed = NoRoute

\* lines 49-62, 64-69: a router and the arguments of one route call
RtInit ==
    /\ router \in [policy : Policies, given : PreferenceOrders]
    /\ rtAdapters \in AdapterLists
    /\ constraints \in ConstraintsSet
    /\ default_models \in DefaultModelsSet
    /\ rtpc = "call"
    /\ ridx = 0
    /\ candidates = <<>>
    /\ routed = NoRoute

rtInputs == <<router, rtAdapters, constraints, default_models>>

\* lines 80-81: `if not adapters: return None`
RouteEmpty ==
    /\ rtpc = "call"
    /\ rtAdapters = <<>>
    /\ routed' = NoRoute
    /\ rtpc' = "done"
    /\ UNCHANGED <<rtInputs, ridx, candidates>>
    /\ UNCHANGED notRouter

\* lines 83-89: the filter loop starts
RouteBegin ==
    /\ rtpc = "call"
    /\ rtAdapters # <<>>
    /\ rtpc' = "filter"
    /\ ridx' = 1
    /\ candidates' = <<>>
    /\ UNCHANGED <<rtInputs, routed>>
    /\ UNCHANGED notRouter

\* lines 89-111: the adapter fails a constraint: `continue`
RouteFilterSkip ==
    /\ rtpc = "filter"
    /\ ridx <= Len(rtAdapters)
    /\ Skipped(Caps(rtAdapters[ridx]), constraints)
    /\ ridx' = ridx + 1
    /\ UNCHANGED <<rtInputs, rtpc, candidates, routed>>
    /\ UNCHANGED notRouter

\* lines 89-114: the adapter passes and becomes a candidate
RouteFilterKeep ==
    /\ rtpc = "filter"
    /\ ridx <= Len(rtAdapters)
    /\ ~Skipped(Caps(rtAdapters[ridx]), constraints)
    /\ candidates' = Append(candidates, rtAdapters[ridx])
    /\ ridx' = ridx + 1
    /\ UNCHANGED <<rtInputs, rtpc, routed>>
    /\ UNCHANGED notRouter

\* lines 116-117: `if not candidates: return None`
RouteNoCandidates ==
    /\ rtpc = "filter"
    /\ ridx > Len(rtAdapters)
    /\ candidates = <<>>
    /\ routed' = NoRoute
    /\ rtpc' = "done"
    /\ UNCHANGED <<rtInputs, ridx, candidates>>
    /\ UNCHANGED notRouter

\* lines 120-121: the preference policy sorts the candidates
RouteSortPreference ==
    /\ rtpc = "filter"
    /\ ridx > Len(rtAdapters)
    /\ candidates # <<>>
    /\ router.policy = "preference"
    /\ candidates' = SortedByKey(candidates, PreferenceOrder(router.given))
    /\ rtpc' = "select"
    /\ UNCHANGED <<rtInputs, ridx, routed>>
    /\ UNCHANGED notRouter

IsOffline(a) == Caps(a).offline

\* lines 122-124: the offline_only policy keeps the offline candidates
RouteKeepOffline ==
    /\ rtpc = "filter"
    /\ ridx > Len(rtAdapters)
    /\ candidates # <<>>
    /\ router.policy = "offline_only"
    /\ candidates' = SelectSeq(candidates, IsOffline)
    /\ rtpc' = "select"
    /\ UNCHANGED <<rtInputs, ridx, routed>>
    /\ UNCHANGED notRouter

\* line 125: the other policies leave the candidates as they are
RouteOtherPolicy ==
    /\ rtpc = "filter"
    /\ ridx > Len(rtAdapters)
    /\ candidates # <<>>
    /\ router.policy \notin {"preference", "offline_only"}
    /\ rtpc' = "select"
    /\ UNCHANGED <<rtInputs, ridx, candidates, routed>>
    /\ UNCHANGED notRouter

\* lines 127-128: `if not candidates: return None`
RouteNoneAfterPolicy ==
    /\ rtpc = "select"
    /\ candidates = <<>>
    /\ routed' = NoRoute
    /\ rtpc' = "done"
    /\ UNCHANGED <<rtInputs, ridx, candidates>>
    /\ UNCHANGED notRouter

\* lines 130-149: the first candidate is selected
RouteSelect ==
    /\ rtpc = "select"
    /\ candidates # <<>>
    /\ routed' = RoutingResult(AdapterName(candidates[1]),
                               ResolveModel(default_models, candidates[1]),
                               Alternatives(candidates))
    /\ rtpc' = "done"
    /\ UNCHANGED <<rtInputs, ridx, candidates>>
    /\ UNCHANGED notRouter

RtNext ==
    \/ RouteEmpty \/ RouteBegin \/ RouteFilterSkip \/ RouteFilterKeep
    \/ RouteNoCandidates \/ RouteSortPreference \/ RouteKeepOffline
    \/ RouteOtherPolicy \/ RouteNoneAfterPolicy \/ RouteSelect

\* ==================================== _resolve_models_for_prompt (cli/bench.py)
\* Strings of the suite file are sequences of characters, so that strip()
\* is computed and not assumed.
MaxStr == 2    \* longest string of the suite file
MaxFb == 3     \* longest fallback list of the suite file
Chars == {" ", "a", "b"}
Strings == SeqsUpTo(Chars, MaxStr)

\* str.strip(): leading and trailing white space removed
IsSpace(c) == c = " "

RECURSIVE LStrip(_)
LStrip(s) == IF s # <<>> /\ IsSpace(Head(s)) THEN LStrip(Tail(s)) ELSE s

RECURSIVE RStrip(_)
RStrip(s) ==
    IF s # <<>> /\ IsSpace(s[Len(s)]) THEN RStrip(SubSeq(s, 1, Len(s) - 1))
    ELSE s

Strip(s) == RStrip(LStrip(s))

\* A value of the suite YAML: a string, a list, or anything else (a number,
\* a mapping, null); "none" is what dict.get gives for a key that is absent.
YamlStr(s) == [kind |-> "str", str |-> s, items |-> <<>>]
YamlOther == [kind |-> "other", str |-> <<>>, items |-> <<>>]
YamlNone == [kind |-> "none", str |-> <<>>, items |-> <<>>]
YamlList(l) == [kind |-> "list", str |-> <<>>, items |-> l]
YamlScalars == {YamlStr(s) : s \in Strings} \cup {YamlOther}
YamlValues ==
    YamlScalars \cup {YamlNone} \cup {YamlList(l) : l \in SeqsUpTo(YamlScalars, MaxFb)}

\* prompt_data["model_overrides"] / ["fallback_models"]: not a mapping (or
\* absent), or a mapping with the value it holds for the provider
NotADict == [isdict |-> FALSE, value |-> YamlNone]
Dict(v) == [isdict |-> TRUE, value |-> v]

\* line 238: models[0] if models else "default"
ProviderDefaults == {<<"a">>, <<"d">>}

\* lines 36-39: the strings of the list, stripped, the blank ones dropped
RECURSIVE NormalizeItems(_)
NormalizeItems(l) ==
    IF l = <<>> THEN <<>>
    ELSE IF Head(l).kind = "str" /\ Strip(Head(l).str) # <<>>
    THEN <<Strip(Head(l).str)>> \o NormalizeItems(Tail(l))
    ELSE NormalizeItems(Tail(l))

\* lines 27-40
_normalize_model_list(raw_models) ==
    IF raw_models.kind = "str"
    THEN IF Strip(raw_models.str) # <<>> THEN <<Strip(raw_models.str)>> ELSE <<>>
    ELSE IF raw_models.kind # "list" THEN <<>>
    ELSE NormalizeItems(raw_models.items)

RsIdle ==
    /\ prompt_data = [model_overrides |-> NotADict, fallback_models |-> NotADict]
    /\ default_model = <<"d">>
    /\ rspc = "idle"
    /\ primary_model = <<>>
    /\ fallback_models = <<>>
    /\ unique_fallbacks = <<>>
    /\ rsidx = 0
    /\ candidate_list = <<>>

\* lines 236-247: the call, for any prompt entry of a suite
RsInit ==
    /\ prompt_data \in
         [model_overrides : {NotADict} \cup {Dict(v) : v \in YamlScalars \cup {YamlNone}},
          fallback_models : {NotADict} \cup {Dict(v) : v \in YamlValues}]
    /\ default_model \in ProviderDefaults
    /\ rspc = "call"
    /\ primary_model = <<>>
    /\ fallback_models = <<>>
    /\ unique_fallbacks = <<>>
    /\ rsidx = 0
    /\ candidate_list = <<>>

\* lines 49-55: the override of the provider when it is a non-blank string
PrimaryModel(overrides, default) ==
    IF /\ overrides.isdict
       /\ overrides.value.kind = "str"
       /\ Strip(overrides.value.str) # <<>>
    THEN Strip(overrides.value.str)
    ELSE default

ResolvePrimary ==
    /\ rspc = "call"
    /\ primary_model' = PrimaryModel(prompt_data.model_overrides, default_model)
    /\ rspc' = "fallbacks"
    /\ UNCHANGED <<prompt_data, default_model, fallback_models,
                   unique_fallbacks, rsidx, candidate_list>>
    /\ UNCHANGED notResolve

\* lines 57-63
ResolveFallbacks ==
    /\ rspc = "fallbacks"
    /\ fallback_models' =
         IF prompt_data.fallback_models.isdict
         THEN _normalize_model_list(prompt_data.fallback_models.value)
         ELSE <<>>
    /\ unique_fallbacks' = <<>>
    /\ rsidx' = 1
    /\ rspc' = "unique"
    /\ UNCHANGED <<prompt_data, default_model, primary_model, candidate_list>>
    /\ UNCHANGED notResolve

\* The test against the primary model left out.
KeepFallback_NoPrimaryTest(fallback_model, primary, unique) ==
    \A i \in DOMAIN unique : unique[i] # fallback_model

\* line 65
KeepFallback(fallback_model, primary, unique) ==
    /\ fallback_model # primary
    /\ \A i \in DOMAIN unique : unique[i] # fallback_model

\* lines 64-66: a fallback that is kept
UniqueKeep ==
    /\ rspc = "unique"
    /\ rsidx <= Len(fallback_models)
    /\ KeepFallback(fallback_models[rsidx], primary_model, unique_fallbacks)
    /\ unique_fallbacks' = Append(unique_fallbacks, fallback_models[rsidx])
    /\ rsidx' = rsidx + 1
    /\ UNCHANGED <<prompt_data, default_model, rspc, primary_model,
                   fallback_models, candidate_list>>
    /\ UNCHANGED notResolve

\* lines 64-65: a fallback that is the primary or was already kept
UniqueSkip ==
    /\ rspc = "unique"
    /\ rsidx <= Len(fallback_models)
    /\ ~KeepFallback(fallback_models[rsidx], primary_model, unique_fallbacks)
    /\ rsidx' = rsidx + 1
    /\ UNCHANGED <<prompt_data, default_model, rspc, primary_model,
                   fallback_models, unique_fallbacks, candidate_list>>
    /\ UNCHANGED notResolve

\* lines 68 and 248: the return, and [primary_model, *fallback_models]
ResolveReturn ==
    /\ rspc = "unique"
    /\ rsidx > Len(fallback_models)
    /\ candidate_list' = <<primary_model>> \o unique_fallbacks
    /\ rspc' = "done"
    /\ UNCHANGED <<prompt_data, default_model, primary_model, fallback_models,
                   unique_fallbacks, rsidx>>
    /\ UNCHANGED notResolve

RsNext ==
    \/ ResolvePrimary \/ ResolveFallbacks \/ UniqueKeep \/ UniqueSkip
    \/ ResolveReturn

\* ================================ BenchmarkOrchestrator.run_suite (core/benchmark.py)
MaxPrompts == 2      \* most prompts in a suite
MaxProviders == 2    \* longest providers argument

\* The adapters that can be registered, in the order they are registered,
\* and what list_models() of each returns.
BenchNames == <<"a", "b">>
BenchNameSet == {"a", "b"}
ListModels(name) == IF name = "a" THEN <<"model-a">> ELSE <<>>

\* The registry: each name is not registered, or registered with an adapter
\* whose is_available() is true or false.
BenchRegistries == [BenchNameSet -> {"absent", "available", "unavailable"}]

\* the ids of the prompts: "1", "2", ...
PromptIds == [i \in 1..MaxPrompts |-> ToString(i)]
Suites == { SubSeq(PromptIds, 1, k) : k \in 0..MaxPrompts }

\* the models argument: for each provider the model given, "" for none
ModelsArgs == { [n \in BenchNameSet |-> ""],
                [n \in BenchNameSet |-> IF n = "a" THEN "custom" ELSE ""] }

\* What adapter.run may return (output, exit code, wall time, TTFT, error,
\* output tokens), zero-valued metrics included.
BenchRunResult(code, ttft, error, tokens) ==
    [output |-> "ok", exit_code |-> code, wall_time_ms |-> 7, ttft_ms |-> ttft,
     error |-> error, token_count_output |-> tokens]

BenchRunResults ==
    { BenchRunResult(0, SomeInt(5), None, SomeInt(7)),
      BenchRunResult(0, SomeInt(0), None, SomeInt(0)),
      BenchRunResult(0, NoInt, None, NoInt),
      BenchRunResult(2, NoInt, Text(<<"failed">>), NoInt) }

BenchExceptions == {"boom"}

NoBenchRunResult == BenchRunResult(-1, NoInt, None, NoInt)

BnIdle ==
    /\ suite = <<>>
    /\ providers = NoList
    /\ models = [n \in BenchNameSet |-> ""]
    /\ benchRegistry = [n \in BenchNameSet |-> "absent"]
    /\ bpc = "idle"
    /\ adapters = <<>>
    /\ pidx = 0 /\ aidx = 0
    /\ run_status = "none"
    /\ jobs = <<>>
    /\ metrics = <<>>
    /\ results = <<>>
    /\ outcomes = <<>>
    /\ storageLog = <<>>

\* lines 108-114: the call, on any registry
BnInit ==
    /\ suite \in Suites
    /\ providers \in {NoList} \cup {List(l) : l \in SeqsUpTo(BenchNameSet, MaxProviders)}
    /\ models \in ModelsArgs
    /\ benchRegistry \in BenchRegistries
    /\ bpc = "call"
    /\ adapters = <<>>
    /\ pidx = 0 /\ aidx = 0
    /\ run_status = "none"
    /\ jobs = <<>>
    /\ metrics = <<>>
    /\ results = <<>>
    /\ outcomes = <<>>
    /\ storageLog = <<>>

bnInputs == <<suite, providers, models, benchRegistry>>

\* Every adapter the registry has for the name, available or not.
Usable_IgnoreAvailability(name) == benchRegistry[name] # "absent"

\* line 138: `adapter is not None and adapter.is_available()`
Usable(name) == benchRegistry[name] = "available"

\* lines 135-139: the adapters of the providers named, in the order named
AdaptersByName(names) == SelectSeq(names, Usable)

\* line 141 (registry.py get_available): the available adapters in the order
\* they were registered
GetAvailable == SelectSeq(BenchNames, Usable)

\* lines 129-143: create_run and the choice of adapters; `if providers` is
\* false for None and for the empty list
SuiteStartNamed ==
    /\ bpc = "call"
    /\ ~providers.null /\ providers.list # <<>>
    /\ run_status' = "running"
    /\ storageLog' = Append(storageLog, <<"create_run", 0>>)
    /\ adapters' = AdaptersByName(providers.list)
    /\ pidx' = 1 /\ aidx' = 1
    /\ bpc' = "loop"
    /\ UNCHANGED <<bnInputs, jobs, metrics, results, outcomes>>
    /\ UNCHANGED notBench

SuiteStartAvailable ==
    /\ bpc = "call"
    /\ providers.null \/ providers.list = <<>>
    /\ run_status' = "running"
    /\ storageLog' = Append(storageLog, <<"create_run", 0>>)
    /\ adapters' = GetAvailable
    /\ pidx' = 1 /\ aidx' = 1
    /\ bpc' = "loop"
    /\ UNCHANGED <<bnInputs, jobs, metrics, results, outcomes>>
    /\ UNCHANGED notBench

\* lines 146-147: the two loops have a pair left
LoopHasPair == adapters # <<>> /\ pidx <= Len(suite)

\* lines 149-152: models.get(name), else the adapter's first model, else
\* "default"
JobModel(name) ==
    IF models[name] # "" THEN models[name]
    ELSE IF ListModels(name) # <<>> THEN ListModels(name)[1]
    ELSE "default"

\* storage.py lines 314-338: a new job, pending
NewJob(prompt_id, provider) ==
    [prompt_id |-> prompt_id, provider |-> provider, model |-> JobModel(provider),
     status |-> "pending", exit_code |-> NoInt, error_message |-> None]

\* lines 149-163: create_job
JobCreate ==
    /\ bpc = "loop"
    /\ LoopHasPair
    /\ jobs' = Append(jobs, NewJob(suite[pidx], adapters[aidx]))
    /\ storageLog' = Append(storageLog, <<"create_job", Len(jobs) + 1>>)
    /\ bpc' = "created"
    /\ UNCHANGED <<bnInputs, adapters, pidx, aidx, run_status, metrics, results,
                   outcomes>>
    /\ UNCHANGED notBench

\* line 164 and storage.py lines 340-347: start_job
JobStart ==
    /\ bpc = "created"
    /\ jobs' = [jobs EXCEPT ![Len(jobs)].status = "running"]
    /\ storageLog' = Append(storageLog, <<"start_job", Len(jobs)>>)
    /\ bpc' = "run"
    /\ UNCHANGED <<bnInputs, adapters, pidx, aidx, run_status, metrics, results,
                   outcomes>>
    /\ UNCHANGED notBench

\* Every job reported as completed, whatever its exit code.
CompleteStatus_AlwaysCompleted(code) == "completed"

\* storage.py line 356
CompleteStatus(code) == IF code = 0 THEN "completed" ELSE "failed"

\* storage.py lines 349-367: complete_job; the job keeps the exit code and
\* the error message it was called with
CompleteJob(id, code, error_message) ==
    [jobs EXCEPT ![id].status = CompleteStatus(code),
                 ![id].exit_code = SomeInt(code),
                 ![id].error_message = error_message]

Metric(id, name, value) == [job |-> id, metric_name |-> name, metric_value |-> value]

\* lines 179-189: the metrics added for a result
MetricsFor(id, r) ==
    <<Metric(id, "wall_time_ms", r.wall_time_ms)>>
    \o (IF TruthyInt(r.ttft_ms)
        THEN <<Metric(id, "ttft_ms", r.ttft_ms.n)>> ELSE <<>>)
    \o (IF TruthyInt(r.token_count_output)
        THEN <<Metric(id, "output_tokens", r.token_count_output.n)>> ELSE <<>>)

\* lines 71-83
BenchmarkResult(job, success, wall, ttft, error, tokens) ==
    [prompt_id |-> job.prompt_id, provider |-> job.provider, model |-> job.model,
     success |-> success, wall_time_ms |-> wall, ttft_ms |-> ttft,
     error |-> error, token_count_output |-> tokens]

\* lines 146-147: the next (prompt, adapter) pair of the two loops
Advance ==
    IF aidx < Len(adapters)
    THEN aidx' = aidx + 1 /\ pidx' = pidx
    ELSE aidx' = 1 /\ pidx' = pidx + 1

\* lines 167-204, 219-220: adapter.run returns; complete_job, the metrics
\* and the result follow
JobRunReturns ==
    /\ bpc = "run"
    /\ \E r \in BenchRunResults :
         LET id == Len(jobs) IN
         /\ outcomes' = Append(outcomes, [raised |-> FALSE, exc |-> "", result |-> r])
         /\ jobs' = CompleteJob(id, r.exit_code, r.error)
         /\ storageLog' = storageLog \o <<<<"adapter.run", id>>, <<"complete_job", id>>>>
         /\ metrics' = metrics \o MetricsFor(id, r)
         /\ results' = Append(results,
                          BenchmarkResult(jobs[id], r.exit_code = 0, r.wall_time_ms,
                                          r.ttft_ms, r.error, r.token_count_output))
    /\ Advance
    /\ bpc' = "loop"
    /\ UNCHANGED <<bnInputs, adapters, run_status>>
    /\ UNCHANGED notBench

\* lines 167-170, 206-220: adapter.run raises; the handler completes the job
\* with exit code 1 and str(e)
JobRunRaises ==
    /\ bpc = "run"
    /\ \E exc \in BenchExceptions :
         LET id == Len(jobs) IN
         /\ outcomes' = Append(outcomes, [raised |-> TRUE, exc |-> exc,
                                          result |-> NoBenchRunResult])
         /\ jobs' = CompleteJob(id, 1, Text(<<exc>>))
         /\ storageLog' = storageLog \o <<<<"adapter.run", id>>, <<"complete_job", id>>>>
         /\ results' = Append(results,
                          BenchmarkResult(jobs[id], FALSE, 0, NoInt, Text(<<exc>>),
                                          NoInt))
    /\ Advance
    /\ bpc' = "loop"
    /\ UNCHANGED <<bnInputs, adapters, run_status, metrics>>
    /\ UNCHANGED notBench

\* lines 222-226 and storage.py lines 264-271: complete_run and the return
SuiteComplete ==
    /\ bpc = "loop"
    /\ ~LoopHasPair
    /\ run_status' = "completed"
    /\ storageLog' = Append(storageLog, <<"complete_run", 0>>)
    /\ bpc' = "done"
    /\ UNCHANGED <<bnInputs, adapters, pidx, aidx, jobs, metrics, results,
                   outcomes>>
    /\ UNCHANGED notBench

BnNext ==
    \/ SuiteStartNamed \/ SuiteStartAvailable \/ JobCreate \/ JobStart
    \/ JobRunReturns \/ JobRunRaises \/ SuiteComplete

\* ======================================================== specifications
ExecIdle ==
    /\ ncalls = 0
    /\ Fresh([args0 |-> "tool", cwd |-> "ok", stdin |-> "none", stream |-> FALSE])

\* the executor under any child and any caller
Init == ExecInit /\ FbIdle /\ AdIdle /\ ApiIdle /\ RegIdle /\ RtIdle /\ RsIdle /\ BnIdle
Next == ExecNext
Spec == Init /\ [][Next]_vars

\* the fallback runner under any adapter
InitFallback == FbInit /\ ExecIdle /\ AdIdle /\ ApiIdle /\ RegIdle /\ RtIdle /\ RsIdle /\ BnIdle
NextFallback == FbNext
SpecFallback == InitFallback /\ [][NextFallback]_vars

\* the subprocess adapters under any executor outcome
InitAdapters == AdInit /\ ExecIdle /\ FbIdle /\ ApiIdle /\ RegIdle /\ RtIdle /\ RsIdle /\ BnIdle
NextAdapters == AdNext
SpecAdapters == InitAdapters /\ [][NextAdapters]_vars

\* the API adapters under any SDK and any client behaviour
InitApi == ApiInit /\ ExecIdle /\ FbIdle /\ AdIdle /\ RegIdle /\ RtIdle /\ RsIdle /\ BnIdle
NextApi == ApiNext
SpecApi == InitApi /\ [][NextApi]_vars

\* the registry under any sequence of register and get_available calls
InitRegistry == RegInit /\ ExecIdle /\ FbIdle /\ AdIdle /\ ApiIdle /\ RtIdle /\ RsIdle /\ BnIdle
NextRegistry == RegNext
SpecRegistry == InitRegistry /\ [][NextRegistry]_vars

\* the router under any adapter list, constraints, policy and preferences
InitRouter == RtInit /\ ExecIdle /\ FbIdle /\ AdIdle /\ ApiIdle /\ RegIdle /\ RsIdle /\ BnIdle
NextRouter == RtNext
SpecRouter == InitRouter /\ [][NextRouter]_vars

\* the model resolution under any prompt entry of a suite
InitResolve == RsInit /\ ExecIdle /\ FbIdle /\ AdIdle /\ ApiIdle /\ RegIdle /\ RtIdle /\ BnIdle
NextResolve == RsNext
SpecResolve == InitResolve /\ [][NextResolve]_vars

\* the orchestrator under any suite, registry and adapter behaviour
InitBench == BnInit /\ ExecIdle /\ FbIdle /\ AdIdle /\ ApiIdle /\ RegIdle /\ RtIdle /\ RsIdle
NextBench == BnNext
SpecBench == InitBench /\ [][NextBench]_vars

\* ================================================================ claims
IsPrefix(a, b) == Len(a) <= Len(b) /\ SubSeq(b, 1, Len(a)) = a
Pieces(text) == { text[i] : i \in 1..Len(text) }
Contains(text, sub) == IsSubstring(sub, text)

\* C1: every argv handed to the executor by a subprocess adapter has no
\* element with the prompt as a substring, and the prompt is handed over as
\* stdin.  (Stated as claimed; CodexAdapter.run violates it.)
C1_PromptOnlyOnStdin ==
    \A i \in 1..Len(handed) :
        /\ \A k \in 1..Len(handed[i].args) : ~IsSubstring(prompt, handed[i].args[k])
        /\ handed[i].hasStdin
        /\ handed[i].stdin = prompt

\* C2: once the deadline has passed, run is never blocked - in a readline
\* that has no complete line to return, or in process.wait() - on a child
\* that is still running.  (Stated as claimed; streaming mode violates it.)
C2_NeverBlockedPastDeadline ==
    ~ /\ expired
      /\ child = "running"
      /\ \/ pc = "wait"
         \/ pc = "readline" /\ ~CanReadline(cur)

\* C3: a result with timed_out = true has the exit code of the forced kill
\* (-SIGKILL, non-zero), never the child's own exit code.  (Stated as
\* claimed; a child that exits between the deadline and the kill violates it.)
C3_TimedOutMeansKilled ==
    (pc = "done" /\ res.timed_out) => res.exit_code = -SIGKILL

\* C4: the fallback runner calls adapter.run on the candidates in list order,
\* never attempts a candidate after one whose result has exit_code 0, and
\* returns that result exactly as the adapter produced it.
AttemptSucceeded(a) == ~a.raised /\ a.result.exit_code = 0

C4_InOrderStopAtFirstSuccess ==
    /\ Len(attempts) <= Len(candidate_models)
    /\ \A k \in 1..Len(attempts) : attempts[k].model = candidate_models[k]
    /\ \A k \in 1..(Len(attempts) - 1) : ~AttemptSucceeded(attempts[k])
    /\ (attempts # <<>> /\ AttemptSucceeded(attempts[Len(attempts)])) =>
          /\ fpc = "done"
          /\ fret.result = attempts[Len(attempts)].result

C4_Witness ==
    /\ fpc = "done"
    /\ Len(candidate_models) = 3
    /\ Len(attempts) = 2
    /\ ~attempts[1].raised /\ attempts[1].result.exit_code # 0
    /\ AttemptSucceeded(attempts[2])
    /\ ~attempts[2].result.error.null

\* C5: when every attempt failed, the returned result has a non-zero exit
\* code and a non-null error that contains, for every attempt, its model
\* followed by its failure reason: the exception text, the result's error
\* text, or exit_code=<n> when the result has no error text.
AllAttemptsFailed ==
    attempts # <<>> /\ \A k \in 1..Len(attempts) : ~AttemptSucceeded(attempts[k])

ClaimedReason(a) ==
    IF a.raised THEN <<a.exc>>
    ELSE IF a.result.error.null \/ a.result.error.text = <<>>
    THEN <<"exit_code=", ToString(a.result.exit_code)>>
    ELSE a.result.error.text

C5_ExhaustionReportsEveryAttempt ==
    (fpc = "done" /\ AllAttemptsFailed) =>
        /\ fret.result.exit_code # 0
        /\ ~fret.result.error.null
        /\ \A k \in 1..Len(attempts) :
              Contains(fret.result.error.text,
                       <<attempts[k].model, ": ">> \o ClaimedReason(attempts[k]))

C5_Witness ==
    /\ fpc = "done"
    /\ Len(attempts) = 3
    /\ attempts[1].raised
    /\ ~attempts[2].raised /\ attempts[2].result.error.null
    /\ ~attempts[3].raised /\ attempts[3].result.error = Text(<<"errB">>)
    /\ attempts[3].result.exit_code # 0 /\ attempts[2].result.exit_code # 0

\* C6: the callback invocations are exactly the chunks, they follow the
\* order in which the child wrote to stdout with nothing repeated or
\* reordered, and no stderr text reaches the callback, the chunks or stdout.
C6_CallbackOrder ==
    /\ cbLog = chunks
    /\ IsPrefix(Flatten(cbLog), written["out"])
    /\ \A piece \in Pieces(Flatten(chunks)) \cup Pieces(stdout_data) : piece[1] = "out"
    /\ pc = "done" =>
          /\ res.chunks = cbLog
          /\ \A piece \in Pieces(res.stdout) : piece[1] = "out"
          /\ Pieces(written["err"]) \cap Pieces(res.stdout) = {}

C6_Witness ==
    /\ pc = "done"
    /\ call.stream
    /\ raised = "none"
    /\ Len(res.chunks) = 2
    /\ Len(cbLog) = 2
    /\ written["err"] # <<>>
    /\ res.stderr = written["err"]

\* C7: in streaming mode, when the child exits normally, every complete
\* line it wrote to stdout is in stdout, in the chunks and was passed to the
\* callback, and the chunks concatenated are stdout.  (Stated as claimed;
\* lines drained after the exit is detected violate it.)
C7_StreamedLinesComplete ==
    (pc = "done" /\ call.stream /\ raised = "none" /\ ~res.timed_out) =>
        /\ Flatten(res.chunks) = res.stdout
        /\ \A piece \in Pieces(written["out"]) :
              IsNl(piece) => /\ piece \in Pieces(res.stdout)
                             /\ piece \in Pieces(Flatten(res.chunks))
                             /\ piece \in Pieces(Flatten(cbLog))

\* C8: a timed-out result returns the stdout and stderr text the child had
\* written before it was killed.  (Stated as claimed; non-streaming mode
\* returns none of it.)
C8_TimeoutKeepsOutput ==
    (pc = "done" /\ res.timed_out) =>
        /\ res.stdout = written["out"]
        /\ res.stderr = written["err"]

\* C9: every run on an args[0] that does not exist returns exit code 127,
\* stderr 'Command not found: <args[0]>', timed_out false, ttft_ms null and
\* no chunks, on the first call and on every repeated one.
C9_MissingBinary ==
    (pc = "done" /\ Resolve(call.args0) = "missing") =>
        /\ res = Result(<<>>, << <<"msg", 0, "Command not found: ", call.args0>> >>,
                        127, FALSE, 0, <<>>)
        /\ child = "none"

C9_Witness ==
    /\ pc = "done"
    /\ Resolve(call.args0) = "missing"
    /\ ncalls > 1
    /\ call.stream
    /\ res.exit_code = 127

\* C10: every exception caught by run other than binary-not-found becomes
\* exit code 1 with the message 'Execution error: <reason>'.  (Stated as
\* claimed; a FileNotFoundError that is not about args[0] violates it.)
C10_OtherErrorsBecomeExit1 ==
    (pc = "done" /\ raised \notin {"none", "fnf_binary"}) =>
        /\ res.exit_code = 1
        /\ res.stderr # <<>>
        /\ res.stderr[Len(res.stderr)][3] = "Execution error: "

\* C11: whenever run is called with a stdin string, the empty string
\* included, the child's standard input is a pipe, never the caller's own
\* standard input, and once the text was written it holds exactly that text
\* followed by end of file.  (Stated as claimed; the empty string violates
\* it.)
C11_StdinIsAlwaysAPipe ==
    (child # "none" /\ call.stdin # "none") =>
        /\ cin.mode = "pipe"
        /\ cin.eof => cin.data = call.stdin

\* C12: every call a subprocess adapter makes to the executor is bounded by
\* options.timeout.  (Stated as claimed; the calls are bounded by the
\* timeout the adapter was constructed with.)
C12_CallBoundedByOptionsTimeout ==
    \A i \in 1..Len(handed) : handed[i].timeout = options.timeout

\* C13: when the adapter's binary cannot be found - nothing on PATH, or an
\* override path that does not exist - run returns, without raising, exit
\* code 127, a non-empty error and wall_time_ms 0.  (Stated as claimed; an
\* override path that does not exist violates it.)
C13_MissingBinaryGives127 ==
    (apc \notin {"idle", "call"} /\ ~BinaryExists(adapter)) =>
        /\ apc = "done"
        /\ runResult.exit_code = 127
        /\ ~Falsy(runResult.error)
        /\ runResult.wall_time_ms = 0

\* C14: the RunResult of a subprocess adapter has the exit code the
\* executor returned, error equal to the executor's stderr when that exit
\* code is not 0, and error null when it is 0.
C14_ExitCodeAndErrorPropagate ==
    (apc = "done" /\ returned # <<>>) =>
        LET r == returned[Len(returned)] IN
        /\ Len(returned) = 1
        /\ runResult.exit_code = r.exit_code
        /\ r.exit_code # 0 => runResult.error = Text(r.stderr)
        /\ r.exit_code = 0 => runResult.error = None

C14_Witness ==
    /\ apc = "done"
    /\ adapter.name = "vllm"
    /\ returned # <<>>
    /\ returned[1].exit_code = 2
    /\ returned[1].stderr = <<"failed">>
    /\ runResult.exit_code = 2
    /\ runResult.error = Text(<<"failed">>)

\* C15: run of the OpenAI and Anthropic adapters never raises; a missing
\* key, a missing SDK and any exception of the client give exit code 1 with
\* the failure's text as error, and a response gives exit code 0 with error
\* null.
C15_ApiRunNeverRaises ==
    /\ apiPc # "raised"
    /\ apiPc = "done" =>
          IF apiEvent.kind = "ok"
          THEN apiResult.exit_code = 0 /\ apiResult.error = None
          ELSE /\ apiResult.exit_code = 1
               /\ apiResult.error = Text(apiEvent.text)
               /\ apiResult.output = <<>>

C15_Witness ==
    /\ apiPc = "done"
    /\ apiAdapter.name = "anthropic"
    /\ apiCalls = 2
    /\ apiClient
    /\ apiEvent = [kind |-> "TimeoutError", text |-> <<"timed out">>]
    /\ apiResult.exit_code = 1

\* C16: get_available returns exactly the registered adapters whose
\* detection reports detected, in registration order, and an adapter whose
\* detect() raises is left out without stopping the others from being
\* checked.  (Stated as claimed; a raising detect() ends get_available.)
IsDetected(a) == a.detect = "yes"
Detected(d) == SelectSeq(d, IsDetected)

C16_GetAvailableIsolatesFaults ==
    /\ gpc # "raised"
    /\ gpc = "returned" => available = Detected(registry)

\* C17: get(name) is the adapter most recently registered under the name,
\* none for a name never registered, and list_names and list_all hold one
\* entry per distinct name, in order of first registration.
RECURSIVE LastRegistered(_, _)
LastRegistered(log, name) ==
    IF log = <<>> THEN NoAdapter
    ELSE IF log[Len(log)].name = name THEN log[Len(log)]
    ELSE LastRegistered(SubSeq(log, 1, Len(log) - 1), name)

RECURSIVE FirstRegistrations(_)
FirstRegistrations(log) ==
    IF log = <<>> THEN <<>>
    ELSE LET before == FirstRegistrations(SubSeq(log, 1, Len(log) - 1))
             name == log[Len(log)].name IN
         IF \E i \in 1..Len(before) : before[i] = name
         THEN before ELSE Append(before, name)

C17_RegisterOverwrites ==
    /\ \A name \in RegNames : Get(name) = LastRegistered(regLog, name)
    /\ ListNames = FirstRegistrations(regLog)
    /\ Len(ListAll) = Len(ListNames)
    /\ \A i \in 1..Len(ListAll) : ListAll[i] = LastRegistered(regLog, ListNames[i])
    /\ \A i, j \in 1..Len(ListNames) : ListNames[i] = ListNames[j] => i = j

C17_Witness ==
    /\ Len(regLog) = 3
    /\ regLog[1].name = "ollama" /\ regLog[2].name = "fake"
    /\ regLog[3].name = "ollama"
    /\ ListNames = <<"ollama", "fake">>
    /\ Get("ollama").id = 3
    /\ Get("claude") = NoAdapter

\* C18: route never selects an adapter that violates an active constraint
\* (offline, streaming, tool calling, context floor with an unknown context
\* size passing), and under the preference policy it returns none exactly
\* when no adapter of the list satisfies every active constraint.
Satisfies(caps, c) ==
    /\ c.offline_only => caps.offline
    /\ c.streaming_required => caps.streaming
    /\ c.tool_calling_required => caps.tool_calling
    /\ ~c.max_context.null =>
          caps.max_context.null \/ caps.max_context.n >= c.max_context.n

Eligible == { i \in 1..Len(rtAdapters) : Satisfies(Caps(rtAdapters[i]), constraints) }

C18_RouteRespectsConstraints ==
    rtpc = "done" =>
        /\ ~routed.none =>
              \E i \in Eligible : AdapterName(rtAdapters[i]) = routed.provider
        /\ router.policy = "preference" => (routed.none <=> Eligible = {})

C18_Witness ==
    /\ rtpc = "done"
    /\ router.policy = "preference"
    /\ constraints.offline_only
    /\ constraints.max_context = SomeInt(6)
    /\ Len(rtAdapters) = 3
    /\ rtAdapters[1] = "claude"
    /\ ~routed.none
    /\ routed.provider = rtAdapters[3]

\* C19: for any preference order given to the Router, the empty list
\* included, the provider selected under the preference policy is the
\* filtered candidate that is earliest in that list, or, with none of them
\* listed, the earliest in the input.  (Stated as claimed; an empty list is
\* replaced by the default order.)
GivenOrder == IF router.given.null THEN DefaultPreferenceOrder ELSE router.given.list

Rank(order, name) ==
    IF \E i \in 1..Len(order) : order[i] = name
    THEN CHOOSE i \in 1..Len(order) :
            order[i] = name /\ \A j \in 1..(i - 1) : order[j] # name
    ELSE Len(order) + 1

C19_SelectsFirstByGivenPreference ==
    (rtpc = "done" /\ router.policy = "preference" /\ ~routed.none) =>
        \E i \in Eligible :
            /\ AdapterName(rtAdapters[i]) = routed.provider
            /\ \A j \in Eligible \ {i} :
                  \/ Rank(GivenOrder, routed.provider)
                        < Rank(GivenOrder, AdapterName(rtAdapters[j]))
                  \/ /\ Rank(GivenOrder, routed.provider)
                          = Rank(GivenOrder, AdapterName(rtAdapters[j]))
                     /\ i < j

\* C20: the model of a RoutingResult is the default configured for the
\* selected provider if there is one, else the first of the adapter's
\* list_models(), else 'default'; the alternatives are the candidates that
\* follow the selected one, in order, at most 3, without the selected
\* provider.
C20_ModelAndAlternatives ==
    (rtpc = "done" /\ ~routed.none) =>
        LET p == routed.provider
            alts == routed.alternatives IN
        /\ default_models[p] # "" => routed.model = default_models[p]
        /\ (default_models[p] = "" /\ CapabilitiesOf(p).models # <<>>) =>
              routed.model = CapabilitiesOf(p).models[1]
        /\ (default_models[p] = "" /\ CapabilitiesOf(p).models = <<>>) =>
              routed.model = "default"
        /\ AdapterName(candidates[1]) = p
        /\ Len(alts) <= 3
        /\ Len(alts) = Len(candidates) - 1 \/ (Len(alts) = 3 /\ Len(candidates) > 4)
        /\ \A i \in 1..Len(alts) :
              alts[i] = AdapterName(candidates[i + 1]) /\ alts[i] # p

C20_Witness ==
    /\ rtpc = "done"
    /\ Len(candidates) = 5
    /\ routed.provider = "claude"
    /\ routed.model = "cfg-claude"
    /\ Len(routed.alternatives) = 3
    /\ routed.alternatives[1] = "fake"

\* C21: a run that timed out stays identifiable in what Adapter.run
\* returns: no run that did not time out and ended with a non-zero exit code
\* gives the same RunResult.  (Stated as claimed; RunResult has no timed_out
\* field and the adapters drop the executor's.)
C21_TimeoutIdentifiable ==
    (apc = "done" /\ returned # <<>> /\ returned[1].timed_out) =>
        \A streaming \in BOOLEAN :
          \A r \in ExecutorResults(TRUE, streaming) :
            (~r.timed_out /\ r.exit_code # 0) =>
                \A keepTtft, keepChunks \in BOOLEAN :
                    FromExecutor(r, keepTtft, keepChunks) # runResult

\* The chunks the stream callback was given and returned from.
DeliveredChunks ==
    IF raised \in {"cb_error", "cb_fnf"}
    THEN SubSeq(res.chunks, 1, Len(res.chunks) - 1)
    ELSE res.chunks

\* C22: the ttft_ms of a result is non-null exactly when the call was
\* streaming and at least one stdout chunk with non-whitespace content was
\* delivered to the callback.  (Stated as claimed; a callback that raises
\* on a later chunk loses the value already recorded.)
C22_TtftIffNonBlankChunk ==
    pc = "done" =>
        ((res.ttft_ms # 0) <=>
            (call.stream /\ \E i \in DOMAIN DeliveredChunks :
                               NonBlank(DeliveredChunks[i])))

\* C27: run returns exit code 127 with the message 'Command not found:
\* <args[0]>' only when args[0] itself cannot be resolved.  (Stated as
\* claimed; a working directory that does not exist, and a
\* FileNotFoundError raised by the stream callback, give the same result
\* for a binary that exists.)
C27_CommandNotFoundOnlyForArgs0 ==
    (/\ pc = "done"
     /\ res.exit_code = 127
     /\ res.stderr # <<>>
     /\ res.stderr[Len(res.stderr)] =
            <<"msg", 0, "Command not found: ", call.args0>>) =>
        Resolve(call.args0) = "missing"

\* C28: whenever run returns after it started a child, the child has
\* terminated and has been waited for.  (Stated as claimed; when the
\* callback or the write to stdin raises, run returns without killing or
\* waiting.)
C28_ChildReapedOnReturn ==
    (pc = "done" /\ child # "none") => child = "reaped"

\* C23: the final model _run_prompt_with_fallback returns is the last
\* candidate it attempted, which is the one that produced the returned
\* result when that result came from the adapter, and fallback_used is true
\* exactly when that candidate is not the first of the list.
C23_FinalModelIsLastAttempted ==
    fpc = "done" =>
        /\ attempts # <<>>
        /\ LET n == Len(attempts) IN
           /\ fret.final_model = attempts[n].model
           /\ fret.final_model = candidate_models[n]
           /\ fret.fallback_used = (n > 1)
           /\ ~attempts[n].raised =>
                 fret.result.output = attempts[n].result.output

C23_Witness ==
    /\ fpc = "done"
    /\ Len(candidate_models) = 3
    /\ Len(attempts) = 2
    /\ attempts[1].raised
    /\ ~attempts[2].raised
    /\ candidate_models[1] # candidate_models[2]
    /\ fret.final_model = candidate_models[2]
    /\ fret.fallback_used
    /\ fret.result.exit_code = 0

\* C30: called with an empty candidate list, _run_prompt_with_fallback does
\* not raise, makes no adapter call and returns a failed RunResult (exit
\* code 1, error 'No model attempts were executed') with fallback_used
\* false.  (Stated as claimed; the function raises IndexError.)
C30_EmptyListReturnsFailure ==
    (candidate_models = <<>> /\ fpc # "start") =>
        /\ fpc = "done"
        /\ attempts = <<>>
        /\ fret.result = RunResult(<<>>, 1,
                             Text(<<"No model attempts were executed">>))
        /\ ~fret.fallback_used

\* The entries of the suite's fallback field for the provider, in the order
\* the suite gives them: the items of a list, or the one string.
SuiteFallbacks ==
    LET f == prompt_data.fallback_models IN
    IF ~f.isdict THEN <<>>
    ELSE IF f.value.kind = "list" THEN f.value.items
    ELSE IF f.value.kind = "str" THEN <<f.value>>
    ELSE <<>>

\* Where the suite names model x for the first time among its fallbacks.
FirstOccurrence(x) ==
    CHOOSE p \in DOMAIN SuiteFallbacks :
        /\ SuiteFallbacks[p].kind = "str" /\ Strip(SuiteFallbacks[p].str) = x
        /\ \A q \in 1..(p - 1) :
              ~(SuiteFallbacks[q].kind = "str" /\ Strip(SuiteFallbacks[q].str) = x)

SuiteNames ==
    { Strip(SuiteFallbacks[p].str) :
        p \in { q \in DOMAIN SuiteFallbacks : SuiteFallbacks[q].kind = "str" } }
      \ {<<>>}

\* C26: the candidate list built for a prompt entry starts with the primary
\* model - the provider's override when that is a non-blank string (its
\* name without the surrounding white space), else the provider default -
\* holds no model twice, never repeats the primary among the fallbacks, and
\* holds the fallback models the suite names, each once, in the order of
\* their first occurrence in the suite.
C26_CandidateList ==
    rspc = "done" =>
        LET o == prompt_data.model_overrides
            n == Len(candidate_list) IN
        /\ n >= 1
        /\ candidate_list[1] =
              IF o.isdict /\ o.value.kind = "str" /\ Strip(o.value.str) # <<>>
              THEN Strip(o.value.str) ELSE default_model
        /\ \A i, j \in 1..n : i # j => candidate_list[i] # candidate_list[j]
        /\ \A i \in 2..n : candidate_list[i] # candidate_list[1]
        /\ { candidate_list[i] : i \in 2..n } = SuiteNames \ {candidate_list[1]}
        /\ \A i, j \in 2..n :
              i < j => FirstOccurrence(candidate_list[i])
                         < FirstOccurrence(candidate_list[j])

C26_Witness ==
    /\ rspc = "done"
    /\ prompt_data.model_overrides = Dict(YamlStr(<<" ", "a">>))
    /\ prompt_data.fallback_models =
          Dict(YamlList(<<YamlStr(<<"b", " ">>), YamlStr(<<"a">>), YamlStr(<<"b">>)>>))
    /\ candidate_list = << <<"a">>, <<"b">> >>

HasMetric(id, name, value) ==
    \E i \in DOMAIN metrics : metrics[i] = Metric(id, name, value)

\* C24: run_suite records a wall_time_ms metric for every job whose adapter
\* call returned, a ttft_ms metric whenever the result's ttft_ms is non-null
\* and an output_tokens metric whenever its token_count_output is non-null,
\* the value 0 included.  (Stated as claimed; the orchestrator tests the
\* values for truth, so a 0 is not recorded.)
C24_MetricsRecordedIncludingZero ==
    \A id \in DOMAIN outcomes :
        ~outcomes[id].raised =>
            LET r == outcomes[id].result IN
            /\ HasMetric(id, "wall_time_ms", r.wall_time_ms)
            /\ ~r.ttft_ms.null => HasMetric(id, "ttft_ms", r.ttft_ms.n)
            /\ ~r.token_count_output.null =>
                   HasMetric(id, "output_tokens", r.token_count_output.n)

\* The adapters run_suite is to use: the providers named that are registered
\* and available, in the order named, or every available adapter.
RegisteredAndAvailable(name) == benchRegistry[name] = "available"

SelectedAdapters ==
    IF ~providers.null /\ providers.list # <<>>
    THEN SelectSeq(providers.list, RegisteredAndAvailable)
    ELSE SelectSeq(BenchNames, RegisteredAndAvailable)

\* The k-th (prompt, adapter) pair: prompts in suite order, and for each
\* prompt the selected adapters in their order.
PairPrompt(k) == suite[((k - 1) \div Len(SelectedAdapters)) + 1]
PairAdapter(k) == SelectedAdapters[((k - 1) % Len(SelectedAdapters)) + 1]
PairCount == Len(suite) * Len(SelectedAdapters)

JobSteps == <<"create_job", "start_job", "adapter.run", "complete_job">>
IsFinished(job) == job.status \in {"completed", "failed"}

\* C25: run_suite creates exactly one job for every prompt and every
\* selected available adapter (an adapter selected twice counts twice), in
\* the order of the loops; each job goes through create_job, start_job,
\* adapter.run and complete_job in that order before the next job is
\* created; at most one job is running at any time; and complete_run is
\* called once, after every job created has been completed.
C25_OneJobPerPairInOrder ==
    /\ Len(jobs) <= PairCount
    /\ \A k \in DOMAIN jobs :
          /\ jobs[k].prompt_id = PairPrompt(k)
          /\ jobs[k].provider = PairAdapter(k)
    /\ Cardinality({ k \in DOMAIN jobs : jobs[k].status = "running" }) <= 1
    /\ \A i \in DOMAIN storageLog :
          IF i = 1 THEN storageLog[i] = <<"create_run", 0>>
          ELSE \/ storageLog[i] = <<JobSteps[((i - 2) % 4) + 1], ((i - 2) \div 4) + 1>>
               \/ /\ storageLog[i] = <<"complete_run", 0>>
                  /\ i = Len(storageLog)
                  /\ i - 2 = 4 * Len(jobs)
    /\ (run_status = "completed") <=> (bpc = "done")
    /\ bpc = "done" =>
          /\ Len(jobs) = PairCount
          /\ \A k \in DOMAIN jobs : IsFinished(jobs[k])
          /\ storageLog[Len(storageLog)] = <<"complete_run", 0>>

C25_Witness ==
    /\ bpc = "done"
    /\ providers = List(<<"b", "a">>)
    /\ Len(suite) = 2
    /\ Len(jobs) = 4
    /\ jobs[2].provider = "a" /\ jobs[3].provider = "b"
    /\ jobs[3].prompt_id = PromptIds[2]
    /\ Len(storageLog) = 18

====
